---------------------------- MODULE CodecProofs ----------------------------
(***************************************************************************)
(* Proofs about DatagramCodec, for every stream of frames and every way it *)
(* is cut into chunks, and about HttpMessages, for every list of headers.  *)
(***************************************************************************)
EXTENDS DatagramCodec, HttpMessages, TLAPS

-----------------------------------------------------------------------------
(* The datagrams of a tunnel: DatagramCodec.  The decoder never leaves the *)
(* frames: its buffer, the chunk and the bytes still to come are, one      *)
(* behind the other, what the stream holds behind a position, and the      *)
(* position is where the state of the decoder says, within the first frame *)
(* that was not returned yet.                                              *)

-----------------------------------------------------------------------------
(* Runs of a fixed sequence of bytes.                                      *)

\* s is what stands in b behind the first p bytes.
RunOf(s, b, p) == \A i \in 1 .. Len(s) : s[i] = b[p + i]

\* The first n elements of a sequence.
LEMMA CutHead ==
    ASSUME NEW S, NEW s \in Seq(S), NEW n \in 0 .. Len(s)
    PROVE  /\ SubSeq(s, 1, n) \in Seq(S) /\ Len(SubSeq(s, 1, n)) = n
           /\ \A i \in 1 .. n : SubSeq(s, 1, n)[i] = s[i]
OBVIOUS

\* The others.
LEMMA CutTail ==
    ASSUME NEW S, NEW s \in Seq(S), NEW n \in 0 .. Len(s)
    PROVE  /\ SubSeq(s, n + 1, Len(s)) \in Seq(S) /\ Len(SubSeq(s, n + 1, Len(s))) = Len(s) - n
           /\ \A i \in 1 .. Len(s) - n : SubSeq(s, n + 1, Len(s))[i] = s[n + i]
<1>1. SubSeq(s, n + 1, Len(s)) \in Seq(S) /\ Len(SubSeq(s, n + 1, Len(s))) = Len(s) - n
    OBVIOUS
<1>2. \A i \in 1 .. Len(s) - n : SubSeq(s, n + 1, Len(s))[i] = s[n + i]
    OBVIOUS
<1> QED BY <1>1, <1>2, Zenon

\* Two sequences joined.
LEMMA Joined ==
    ASSUME NEW S, NEW s \in Seq(S), NEW t \in Seq(S)
    PROVE  s \o t \in Seq(S) /\ Len(s \o t) = Len(s) + Len(t)
OBVIOUS

\* A run cut in two is two adjacent runs.
LEMMA RunCut ==
    ASSUME NEW S, NEW s \in Seq(S), NEW n \in 0 .. Len(s), NEW b, NEW p \in Int, RunOf(s, b, p)
    PROVE  RunOf(SubSeq(s, 1, n), b, p) /\ RunOf(SubSeq(s, n + 1, Len(s)), b, p + n)
<1>1. RunOf(SubSeq(s, 1, n), b, p)
    BY DEF RunOf
<1>2. RunOf(SubSeq(s, n + 1, Len(s)), b, p + n)
    <2>1. \A i \in 1 .. Len(s) - n : n + i \in 1 .. Len(s) /\ p + (n + i) = (p + n) + i
        OBVIOUS
    <2>2. \A i \in 1 .. Len(s) - n : s[n + i] = b[(p + n) + i]
        BY <2>1, Zenon DEF RunOf
    <2> QED BY <2>2, CutTail DEF RunOf
<1> QED BY <1>1, <1>2, Zenon

\* Two adjacent runs are one.
LEMMA RunJoin ==
    ASSUME NEW S, NEW s \in Seq(S), NEW t \in Seq(S), NEW b, NEW p \in Int,
           RunOf(s, b, p), RunOf(t, b, p + Len(s))
    PROVE  s \o t \in Seq(S) /\ Len(s \o t) = Len(s) + Len(t) /\ RunOf(s \o t, b, p)
<1>1. s \o t \in Seq(S) /\ Len(s \o t) = Len(s) + Len(t)
    OBVIOUS
<1>2. ASSUME NEW i \in 1 .. Len(s) + Len(t)
      PROVE  (s \o t)[i] = b[p + i]
    <2>1. CASE i <= Len(s)
        BY <2>1 DEF RunOf
    <2>2. CASE i > Len(s)
        <3>1. i - Len(s) \in 1 .. Len(t) /\ (s \o t)[i] = t[i - Len(s)]
            BY <2>2
        <3>2. t[i - Len(s)] = b[(p + Len(s)) + (i - Len(s))]
            BY <3>1, Zenon DEF RunOf
        <3>3. (p + Len(s)) + (i - Len(s)) = p + i
            OBVIOUS
        <3> QED BY <3>1, <3>2, <3>3, Zenon
    <2> QED BY <2>1, <2>2
<1> QED BY <1>1, <1>2, Zenon DEF RunOf

\* Sequences that agree at every position are the same.
LEMMA SameSequence ==
    ASSUME NEW S, NEW s \in Seq(S), NEW t \in Seq(S), Len(s) = Len(t),
           \A i \in 1 .. Len(s) : s[i] = t[i]
    PROVE  s = t
OBVIOUS

-----------------------------------------------------------------------------
(* The buffer.                                                             *)

\* The buffer has room for what the state reads into it.
DcRoom ==
    /\ dcState.at = "length" => Len(dcBuffer) < DcLength
    /\ dcState.at = "header" => Len(dcBuffer) < DcHeader /\ dcTotal >= DcHeader
    /\ dcState.at = "name" => dcTotal >= DcHeader + dcState.left
    /\ dcState.at \in {"name", "payload"} => Len(dcBuffer) < dcState.left \/ dcBuffer = <<>>
    /\ dcState.at = "dropping" => dcBuffer = <<>>
    /\ dcState.at = "request" => Len(dcBuffer) < DcRequest

\* A read takes of the chunk what the field is short of.
LEMMA DcReadFacts ==
    ASSUME NEW cap \in Nat, dcBuffer \in Seq(DcByte), dcData \in Seq(DcByte), Len(dcBuffer) <= cap
    PROVE  /\ DcDrain(cap) \in 0 .. Len(dcData)
           /\ DcRead(cap) \in Seq(DcByte)
           /\ Len(DcRead(cap)) = Len(dcBuffer) + DcDrain(cap) /\ Len(DcRead(cap)) <= cap
<1>1. Len(dcBuffer) \in Nat /\ Len(dcData) \in Nat
    OBVIOUS
<1>2. DcDrain(cap) \in 0 .. Len(dcData) /\ Len(dcBuffer) + DcDrain(cap) <= cap
    BY <1>1 DEF DcDrain, DcLeast
<1>3. SubSeq(dcData, 1, DcDrain(cap)) \in Seq(DcByte) /\ Len(SubSeq(dcData, 1, DcDrain(cap))) = DcDrain(cap)
    BY <1>2, CutHead, Zenon
<1>4. DcRead(cap) \in Seq(DcByte) /\ Len(DcRead(cap)) = Len(dcBuffer) + DcDrain(cap)
    BY <1>3, Joined, Zenon DEF DcRead
<1> QED BY <1>2, <1>4

\* After a read the field is complete and the buffer empty, or the buffer holds
\* what there is of the field.
LEMMA DcReadTypes ==
    ASSUME NEW cap \in Nat, dcBuffer \in Seq(DcByte), dcData \in Seq(DcByte), Len(dcBuffer) <= cap,
           BufferedRead(cap)
    PROVE  /\ DcRead(cap) \in Seq(DcByte)
           /\ dcData' \in Seq(DcByte) /\ dcBuffer' \in Seq(DcByte)
           /\ \/ Len(DcRead(cap)) < cap /\ dcBuffer' = DcRead(cap)
              \/ ~(Len(DcRead(cap)) < cap) /\ Len(DcRead(cap)) = cap /\ dcBuffer' = <<>>
<1>1. /\ DcDrain(cap) \in 0 .. Len(dcData) /\ DcRead(cap) \in Seq(DcByte)
      /\ Len(DcRead(cap)) <= cap
    BY DcReadFacts, Zenon
<1>2. dcData' \in Seq(DcByte)
    BY <1>1, CutTail, Zenon DEF BufferedRead
<1>3. Len(DcRead(cap)) < cap \/ (~(Len(DcRead(cap)) < cap) /\ Len(DcRead(cap)) = cap)
    BY <1>1
<1>4. <<>> \in Seq(DcByte)
    OBVIOUS
<1> QED BY <1>1, <1>2, <1>3, <1>4, Zenon DEF BufferedRead

\* A complete field of n bytes, and one byte of it.
LEMMA DcFieldFacts ==
    ASSUME NEW n \in Nat, NEW s \in Seq(DcByte), Len(s) = n
    PROVE  s \in [1 .. n -> DcByte] /\ \A i \in 1 .. n : s[i] \in Nat
<1>1. s \in [1 .. Len(s) -> DcByte]
    OBVIOUS
<1>2. \A i \in 1 .. n : s[i] \in DcByte
    OBVIOUS
<1>3. DcByte \subseteq Nat
    BY DatagramAssumption, Zenon
<1> QED BY <1>1, <1>2, <1>3, Zenon

\* The states of RecvState, and the one of the ICMP codec.
DcStates == {"length", "header", "name", "payload", "dropping", "request"}

\* The fields of a state.
LEMMA DcAtFacts ==
    ASSUME NEW at \in DcStates, NEW left \in Nat
    PROVE  /\ At(at, left) \in [at : DcStates, left : Nat]
           /\ At(at, left).at = at /\ At(at, left).left = left
BY DEF At

\* The types and the room in the buffer are kept.
DcSafe == DcTypeOK /\ DcRoom

\* The types, one by one.
LEMMA DcSafeFacts ==
    ASSUME DcSafe
    PROVE  /\ dcStream \in DcStreams /\ dcWire \in Seq(DcByte) /\ dcData \in Seq(DcByte)
           /\ dcBuffer \in Seq(DcByte) /\ dcState \in [at : DcStates, left : Nat]
           /\ dcState.at \in DcStates /\ dcState.left \in Nat
           /\ dcTotal \in Nat /\ dcMeta \in [header : Seq(DcByte), name : Seq(DcByte)]
           /\ dcOut \in Seq(DcDatagrams)
           /\ DcLength \in Nat /\ DcHeader \in Nat /\ DcRequest \in Nat
           /\ DcLength > 0 /\ DcHeader > 0 /\ DcRequest > 0
<1>1. dcState \in [at : DcStates, left : Nat]
    BY Zenon DEF DcSafe, DcTypeOK, DcStates
<1>2. dcState.at \in DcStates /\ dcState.left \in Nat
    BY <1>1
<1>3. /\ DcLength \in Nat /\ DcHeader \in Nat /\ DcRequest \in Nat
      /\ DcLength > 0 /\ DcHeader > 0 /\ DcRequest > 0
    BY DatagramAssumption
<1> QED BY <1>1, <1>2, <1>3, Zenon DEF DcSafe, DcTypeOK

\* process_client_length keeps them.
LEMMA DcLengthSafe ==
    ASSUME DcSafe, ProcessClientLength
    PROVE  DcSafe'
<1>1. /\ dcState.at = "length" /\ BufferedRead(DcLength)
      /\ UNCHANGED <<dcStream, dcWire, dcMeta, dcOut>>
    BY Zenon DEF ProcessClientLength
<1>2. dcBuffer \in Seq(DcByte) /\ dcData \in Seq(DcByte) /\ Len(dcBuffer) <= DcLength /\ DcLength \in Nat
    BY <1>1, DcSafeFacts DEF DcSafe, DcRoom
<1>3. /\ DcRead(DcLength) \in Seq(DcByte) /\ dcData' \in Seq(DcByte) /\ dcBuffer' \in Seq(DcByte)
      /\ \/ Len(DcRead(DcLength)) < DcLength /\ dcBuffer' = DcRead(DcLength)
         \/ ~(Len(DcRead(DcLength)) < DcLength) /\ Len(DcRead(DcLength)) = DcLength /\ dcBuffer' = <<>>
    BY <1>1, <1>2, DcReadTypes, Zenon
<1>4. CASE Len(DcRead(DcLength)) < DcLength /\ dcBuffer' = DcRead(DcLength)
    <2>1. dcState' = dcState /\ dcTotal' = dcTotal
        BY <1>4, Zenon DEF ProcessClientLength
    <2>2. DcTypeOK'
        BY <1>1, <1>3, <2>1, Zenon DEF DcSafe, DcTypeOK
    <2>3. DcRoom'
        BY <1>1, <1>4, <2>1 DEF DcRoom
    <2> QED BY <2>2, <2>3, Zenon DEF DcSafe
<1>5. CASE ~(Len(DcRead(DcLength)) < DcLength) /\ Len(DcRead(DcLength)) = DcLength /\ dcBuffer' = <<>>
    <2> DEFINE n == DcU32[DcRead(DcLength)]
    <2>1. dcTotal' = n /\ dcState' = IF n >= DcHeader THEN At("header", 0) ELSE At("dropping", n)
        BY <1>5, Zenon DEF ProcessClientLength
    <2>2. DcRead(DcLength) \in [1 .. DcLength -> DcByte]
        BY <1>2, <1>3, <1>5, DcFieldFacts, Zenon
    <2>3. n \in Nat
        BY <2>2, DatagramAssumption
    <2> HIDE DEF n
    <2>4. CASE n >= DcHeader
        <3>1. "header" \in DcStates /\ 0 \in Nat
            BY DEF DcStates
        <3>2. dcState' \in [at : DcStates, left : Nat] /\ dcState'.at = "header"
            BY <2>1, <2>4, <3>1, DcAtFacts, Zenon
        <3>3. DcTypeOK'
            BY <1>1, <1>3, <2>1, <2>3, <3>2, Zenon DEF DcSafe, DcTypeOK, DcStates
        <3>4. DcRoom'
            BY <1>5, <2>1, <2>4, <3>2, DcSafeFacts, SMTT(30) DEF DcRoom
        <3> QED BY <3>3, <3>4, Zenon DEF DcSafe
    <2>5. CASE ~(n >= DcHeader)
        <3>1. "dropping" \in DcStates
            BY DEF DcStates
        <3>2. dcState' \in [at : DcStates, left : Nat] /\ dcState'.at = "dropping"
            BY <2>1, <2>3, <2>5, <3>1, DcAtFacts, Zenon
        <3>3. DcTypeOK'
            BY <1>1, <1>3, <2>1, <2>3, <3>2, Zenon DEF DcSafe, DcTypeOK, DcStates
        <3>4. DcRoom'
            BY <1>5, <3>2 DEF DcRoom
        <3> QED BY <3>3, <3>4, Zenon DEF DcSafe
    <2> QED BY <2>4, <2>5, Zenon
<1> QED BY <1>3, <1>4, <1>5, Zenon

\* process_client_fixed_header keeps them.
LEMMA DcHeaderSafe ==
    ASSUME DcSafe, ProcessClientFixedHeader
    PROVE  DcSafe'
<1>1. /\ dcState.at = "header" /\ BufferedRead(DcHeader)
      /\ UNCHANGED <<dcStream, dcWire, dcTotal, dcOut>>
    BY Zenon DEF ProcessClientFixedHeader
<1>2. /\ dcBuffer \in Seq(DcByte) /\ dcData \in Seq(DcByte) /\ Len(dcBuffer) <= DcHeader /\ DcHeader \in Nat
      /\ dcTotal >= DcHeader /\ dcTotal \in Nat /\ DcHeader > 0
    BY <1>1, DcSafeFacts DEF DcSafe, DcRoom
<1> DEFINE field == DcRead(DcHeader)
<1>3. /\ field \in Seq(DcByte) /\ dcData' \in Seq(DcByte) /\ dcBuffer' \in Seq(DcByte)
      /\ \/ Len(field) < DcHeader /\ dcBuffer' = field
         \/ ~(Len(field) < DcHeader) /\ Len(field) = DcHeader /\ dcBuffer' = <<>>
    BY <1>1, <1>2, DcReadTypes, Zenon
<1>4. CASE Len(field) < DcHeader /\ dcBuffer' = field
    <2>1. dcState' = dcState /\ dcMeta' = dcMeta
        BY <1>4, Zenon DEF ProcessClientFixedHeader
    <2>2. DcTypeOK'
        BY <1>1, <1>3, <2>1, Zenon DEF DcSafe, DcTypeOK
    <2>3. DcRoom'
        BY <1>1, <1>2, <1>4, <2>1 DEF DcRoom
    <2> QED BY <2>2, <2>3, Zenon DEF DcSafe
<1>5. CASE ~(Len(field) < DcHeader) /\ Len(field) = DcHeader /\ dcBuffer' = <<>>
    <2> DEFINE n == DcNameLength(field)
    <2>1. /\ dcMeta' = [dcMeta EXCEPT !.header = field]
          /\ dcState' = IF dcTotal + n > DcMaxIn \/ dcTotal < DcHeader + n
                        THEN At("dropping", dcTotal - DcHeader) ELSE At("name", n)
        BY <1>5, Zenon DEF ProcessClientFixedHeader
    <2>2. \A i \in 1 .. DcHeader : field[i] \in Nat
        BY <1>2, <1>3, <1>5, DcFieldFacts, Zenon
    <2>3. n \in Nat
        <3>1. DcHeader \in 1 .. DcHeader
            BY <1>2
        <3> QED BY <2>2, <3>1, Zenon DEF DcNameLength
    <2> HIDE DEF n, field
    <2>4. dcMeta' \in [header : Seq(DcByte), name : Seq(DcByte)]
        BY <1>3, <2>1, DcSafeFacts, Zenon
    <2>5. dcTotal' \in Nat /\ dcTotal' = dcTotal /\ dcTotal - DcHeader \in Nat
        BY <1>1, <1>2
    <2>6. CASE dcTotal + n > DcMaxIn \/ dcTotal < DcHeader + n
        <3>1. "dropping" \in DcStates
            BY DEF DcStates
        <3>2. dcState' \in [at : DcStates, left : Nat] /\ dcState'.at = "dropping"
            BY <2>1, <2>5, <2>6, <3>1, DcAtFacts, Zenon
        <3>3. DcTypeOK'
            BY <1>1, <1>3, <2>4, <2>5, <3>2, Zenon DEF DcSafe, DcTypeOK, DcStates
        <3>4. DcRoom'
            BY <1>5, <3>2 DEF DcRoom
        <3> QED BY <3>3, <3>4, Zenon DEF DcSafe
    <2>7. CASE ~(dcTotal + n > DcMaxIn \/ dcTotal < DcHeader + n)
        <3>1. "name" \in DcStates
            BY DEF DcStates
        <3>2. dcState' \in [at : DcStates, left : Nat] /\ dcState'.at = "name" /\ dcState'.left = n
            BY <2>1, <2>3, <2>7, <3>1, DcAtFacts, Zenon
        <3>3. DcTypeOK'
            BY <1>1, <1>3, <2>4, <2>5, <3>2, Zenon DEF DcSafe, DcTypeOK, DcStates
        <3>4. DcRoom'
            BY <1>2, <1>5, <2>3, <2>5, <2>7, <3>2 DEF DcRoom
        <3> QED BY <3>3, <3>4, Zenon DEF DcSafe
    <2> QED BY <2>6, <2>7, Zenon
<1> QED BY <1>3, <1>4, <1>5, Zenon

\* process_client_app_name keeps them.
LEMMA DcNameSafe ==
    ASSUME DcSafe, ProcessClientAppName
    PROVE  DcSafe'
<1> DEFINE left == dcState.left
           field == DcRead(left)
           rest == dcTotal - DcHeader - left
<1>1. /\ dcState.at = "name" /\ BufferedRead(left)
      /\ UNCHANGED <<dcStream, dcWire, dcTotal, dcOut>>
    BY Zenon DEF ProcessClientAppName
<1>2. /\ dcBuffer \in Seq(DcByte) /\ dcData \in Seq(DcByte) /\ left \in Nat /\ dcTotal \in Nat
      /\ dcTotal >= DcHeader + left /\ DcHeader \in Nat /\ (Len(dcBuffer) < left \/ dcBuffer = <<>>)
    BY <1>1, DcSafeFacts, Zenon DEF DcSafe, DcRoom
<1>3. Len(dcBuffer) <= left /\ rest \in Nat
    BY <1>2
<1>4. /\ field \in Seq(DcByte) /\ dcData' \in Seq(DcByte) /\ dcBuffer' \in Seq(DcByte)
      /\ \/ Len(field) < left /\ dcBuffer' = field
         \/ ~(Len(field) < left) /\ Len(field) = left /\ dcBuffer' = <<>>
    BY <1>1, <1>2, <1>3, DcReadTypes, Zenon
<1>5. CASE Len(field) < left /\ dcBuffer' = field
    <2>1. dcState' = dcState /\ dcMeta' = dcMeta
        BY <1>5, Zenon DEF ProcessClientAppName
    <2>2. DcTypeOK'
        BY <1>1, <1>4, <2>1, Zenon DEF DcSafe, DcTypeOK
    <2>3. DcRoom'
        BY <1>1, <1>2, <1>5, <2>1 DEF DcRoom
    <2> QED BY <2>2, <2>3, Zenon DEF DcSafe
<1>6. CASE ~(Len(field) < left) /\ Len(field) = left /\ dcBuffer' = <<>>
    <2>1. \/ dcMeta' = [dcMeta EXCEPT !.name = field] /\ dcState' = At("payload", rest)
          \/ dcState' = At("dropping", rest) /\ dcMeta' = dcMeta
        BY <1>6, Zenon DEF ProcessClientAppName
    <2>2. "payload" \in DcStates /\ "dropping" \in DcStates
        BY DEF DcStates
    <2> HIDE DEF left, field, rest
    <2>3. dcMeta' \in [header : Seq(DcByte), name : Seq(DcByte)]
        BY <1>4, <2>1, DcSafeFacts, Zenon
    <2>4. dcState' \in [at : DcStates, left : Nat] /\ dcState'.at \in {"payload", "dropping"}
        <3>1. At("payload", rest) \in [at : DcStates, left : Nat] /\ At("payload", rest).at = "payload"
            BY <1>3, <2>2, DcAtFacts, Zenon
        <3>2. At("dropping", rest) \in [at : DcStates, left : Nat] /\ At("dropping", rest).at = "dropping"
            BY <1>3, <2>2, DcAtFacts, Zenon
        <3> QED BY <2>1, <3>1, <3>2, Zenon
    <2>5. DcTypeOK'
        BY <1>1, <1>4, <2>3, <2>4, Zenon DEF DcSafe, DcTypeOK, DcStates
    <2>6. DcRoom'
        BY <1>6, <2>4 DEF DcRoom
    <2> QED BY <2>5, <2>6, Zenon DEF DcSafe
<1> QED BY <1>4, <1>5, <1>6, Zenon

\* process_client_payload keeps them.
LEMMA DcPayloadSafe ==
    ASSUME DcSafe, ProcessClientPayload
    PROVE  DcSafe'
<1> DEFINE left == dcState.left
           field == DcRead(left)
<1>1. /\ dcState.at = "payload" /\ BufferedRead(left)
      /\ UNCHANGED <<dcStream, dcWire, dcTotal>>
    BY Zenon DEF ProcessClientPayload
<1>2. /\ dcBuffer \in Seq(DcByte) /\ dcData \in Seq(DcByte) /\ left \in Nat /\ dcTotal \in Nat
      /\ (Len(dcBuffer) < left \/ dcBuffer = <<>>)
      /\ dcMeta \in [header : Seq(DcByte), name : Seq(DcByte)] /\ dcOut \in Seq(DcDatagrams)
      /\ DcLength \in Nat /\ DcLength > 0
    BY <1>1, DcSafeFacts, Zenon DEF DcSafe, DcRoom
<1>3. Len(dcBuffer) <= left
    BY <1>2
<1>4. /\ field \in Seq(DcByte) /\ dcData' \in Seq(DcByte) /\ dcBuffer' \in Seq(DcByte)
      /\ \/ Len(field) < left /\ dcBuffer' = field
         \/ ~(Len(field) < left) /\ Len(field) = left /\ dcBuffer' = <<>>
    BY <1>1, <1>2, <1>3, DcReadTypes, Zenon
<1>5. CASE Len(field) < left /\ dcBuffer' = field
    <2>1. dcState' = dcState /\ dcMeta' = dcMeta /\ dcOut' = dcOut
        BY <1>5, Zenon DEF ProcessClientPayload
    <2>2. DcTypeOK'
        BY <1>1, <1>4, <2>1, Zenon DEF DcSafe, DcTypeOK
    <2>3. DcRoom'
        BY <1>1, <1>2, <1>5, <2>1 DEF DcRoom
    <2> QED BY <2>2, <2>3, Zenon DEF DcSafe
<1>6. CASE ~(Len(field) < left) /\ Len(field) = left /\ dcBuffer' = <<>>
    <2>1. /\ dcOut' = Append(dcOut, DcDatagram(dcMeta.header, dcMeta.name, field))
          /\ dcMeta' = [dcMeta EXCEPT !.name = <<>>] /\ dcState' = At("length", 0)
        BY <1>6, Zenon DEF ProcessClientPayload
    <2>2. "length" \in DcStates /\ 0 \in Nat
        BY DEF DcStates
    <2> HIDE DEF left, field
    <2>3. dcMeta' \in [header : Seq(DcByte), name : Seq(DcByte)]
        <3>1. <<>> \in Seq(DcByte)
            OBVIOUS
        <3> QED BY <1>2, <2>1, <3>1, Zenon
    <2>4. dcState' \in [at : DcStates, left : Nat] /\ dcState'.at = "length"
        BY <2>1, <2>2, DcAtFacts, Zenon
    <2>5. dcOut' \in Seq(DcDatagrams)
        <3>1. DcDatagram(dcMeta.header, dcMeta.name, field) \in DcDatagrams
            BY <1>2, <1>4 DEF DcDatagram, DcDatagrams
        <3> HIDE DEF DcDatagrams
        <3> QED BY <1>2, <2>1, <3>1
    <2>6. DcTypeOK'
        BY <1>1, <1>4, <2>3, <2>4, <2>5, Zenon DEF DcSafe, DcTypeOK, DcStates
    <2>7. DcRoom'
        BY <1>2, <1>6, <2>4 DEF DcRoom
    <2> QED BY <2>6, <2>7, Zenon DEF DcSafe
<1> QED BY <1>4, <1>5, <1>6, Zenon

\* on_message_chunk of the ICMP codec keeps them.
LEMMA DcRequestSafe ==
    ASSUME DcSafe, OnMessageChunk
    PROVE  DcSafe'
<1> DEFINE field == DcRead(DcRequest)
<1>1. /\ dcState.at = "request" /\ BufferedRead(DcRequest)
      /\ UNCHANGED <<dcStream, dcWire, dcState, dcTotal, dcMeta>>
    BY Zenon DEF OnMessageChunk
<1>2. /\ dcBuffer \in Seq(DcByte) /\ dcData \in Seq(DcByte) /\ Len(dcBuffer) <= DcRequest
      /\ DcRequest \in Nat /\ DcRequest > 0 /\ dcOut \in Seq(DcDatagrams)
    BY <1>1, DcSafeFacts DEF DcSafe, DcRoom
<1>3. /\ field \in Seq(DcByte) /\ dcData' \in Seq(DcByte) /\ dcBuffer' \in Seq(DcByte)
      /\ \/ Len(field) < DcRequest /\ dcBuffer' = field
         \/ ~(Len(field) < DcRequest) /\ Len(field) = DcRequest /\ dcBuffer' = <<>>
    BY <1>1, <1>2, DcReadTypes, Zenon
<1>4. dcOut' = dcOut \/ dcOut' = Append(dcOut, DcDatagram(field, <<>>, <<>>))
    BY Zenon DEF OnMessageChunk
<1> HIDE DEF field
<1>5. dcOut' \in Seq(DcDatagrams)
    <2>1. DcDatagram(field, <<>>, <<>>) \in DcDatagrams
        BY <1>3 DEF DcDatagram, DcDatagrams
    <2> HIDE DEF DcDatagrams
    <2> QED BY <1>2, <1>4, <2>1, SMTT(30)
<1>6. DcTypeOK'
    BY <1>1, <1>3, <1>5, Zenon DEF DcSafe, DcTypeOK
<1>7. DcRoom'
    BY <1>1, <1>2, <1>3 DEF DcRoom
<1> QED BY <1>6, <1>7, Zenon DEF DcSafe

\* The state Dropping keeps them.
LEMMA DcDroppingSafe ==
    ASSUME DcSafe, DcDropping
    PROVE  DcSafe'
<1> DEFINE n == DcLeast(Len(dcData), dcState.left)
<1>1. /\ dcState.at = "dropping" /\ dcData' = SubSeq(dcData, 1, n)
      /\ dcState' = IF dcState.left <= n THEN At("length", 0) ELSE At("dropping", dcState.left - n)
      /\ UNCHANGED <<dcStream, dcWire, dcTotal, dcBuffer, dcMeta, dcOut>>
    BY Zenon DEF DcDropping
<1>2. dcData \in Seq(DcByte) /\ dcState.left \in Nat /\ DcLength \in Nat /\ DcLength > 0 /\ dcBuffer = <<>>
    BY <1>1, DcSafeFacts, Zenon DEF DcSafe, DcRoom
<1>3. n \in 0 .. Len(dcData) /\ n <= dcState.left
    BY <1>2 DEF DcLeast
<1>4. dcData' \in Seq(DcByte)
    BY <1>1, <1>2, <1>3, CutHead, Zenon
<1> HIDE DEF n
<1>5. dcState' \in [at : DcStates, left : Nat] /\ dcState'.at \in {"length", "dropping"}
    <2>1. "length" \in DcStates /\ "dropping" \in DcStates /\ 0 \in Nat /\ dcState.left - n \in Nat
        BY <1>2, <1>3 DEF DcStates
    <2>2. At("length", 0) \in [at : DcStates, left : Nat] /\ At("length", 0).at = "length"
        BY <2>1, DcAtFacts, Zenon
    <2>3. /\ At("dropping", dcState.left - n) \in [at : DcStates, left : Nat]
          /\ At("dropping", dcState.left - n).at = "dropping"
        BY <2>1, DcAtFacts, Zenon
    <2> QED BY <1>1, <2>2, <2>3, Zenon
<1>6. DcTypeOK'
    BY <1>1, <1>4, <1>5, Zenon DEF DcSafe, DcTypeOK, DcStates
<1>7. DcRoom'
    BY <1>1, <1>2, <1>5 DEF DcRoom
<1> QED BY <1>6, <1>7, Zenon DEF DcSafe

\* A new chunk keeps them.
LEMMA DcChunkSafe ==
    ASSUME DcSafe, DcChunk
    PROVE  DcSafe'
<1>1. PICK n \in 1 .. Len(dcWire) :
         /\ dcData' = SubSeq(dcWire, 1, n) /\ dcWire' = SubSeq(dcWire, n + 1, Len(dcWire))
    BY Zenon DEF DcChunk
<1>2. UNCHANGED <<dcStream, dcState, dcTotal, dcBuffer, dcMeta, dcOut>>
    BY Zenon DEF DcChunk, dcDecoder
<1>3. dcWire \in Seq(DcByte)
    BY DcSafeFacts, Zenon
<1>4. n \in 0 .. Len(dcWire)
    BY <1>3
<1>5. dcData' \in Seq(DcByte) /\ dcWire' \in Seq(DcByte)
    BY <1>1, <1>3, <1>4, CutHead, CutTail, Zenon
<1>6. DcTypeOK'
    BY <1>2, <1>5, Zenon DEF DcSafe, DcTypeOK
<1>7. DcRoom'
    BY <1>2, Zenon DEF DcSafe, DcRoom
<1> QED BY <1>6, <1>7, Zenon DEF DcSafe

\* Every step keeps them.
LEMMA DcSafeStep == DcSafe /\ [DcNext]_dcVars => DcSafe'
<1> SUFFICES ASSUME DcSafe, [DcNext]_dcVars PROVE DcSafe'
    OBVIOUS
<1>1. CASE DcNext
    BY <1>1, DcChunkSafe, DcLengthSafe, DcHeaderSafe, DcNameSafe, DcPayloadSafe, DcDroppingSafe,
       DcRequestSafe, Zenon DEF DcNext
<1>2. CASE UNCHANGED dcVars
    <2>1. /\ UNCHANGED <<dcStream, dcWire, dcData, dcState>>
          /\ UNCHANGED <<dcTotal, dcBuffer, dcMeta, dcOut>>
        BY <1>2, Zenon DEF dcVars, dcDecoder
    <2> QED BY <2>1, Zenon DEF DcSafe, DcTypeOK, DcRoom
<1> QED BY <1>1, <1>2, Zenon

\* They hold at first.
LEMMA DcSafeInit == DcInit => DcSafe
<1> SUFFICES ASSUME DcInit PROVE DcSafe
    OBVIOUS
<1>1. /\ dcStream \in DcStreams /\ dcWire = dcStream.bytes
      /\ dcData = <<>> /\ dcTotal = 0 /\ dcBuffer = <<>> /\ dcOut = <<>>
      /\ dcMeta = [header |-> <<>>, name |-> <<>>]
      /\ dcState = At(IF dcStream.kind = "udp" THEN "length" ELSE "request", 0)
    BY Zenon DEF DcInit
<1>2. dcStream.bytes \in Seq(DcByte)
    BY <1>1, DatagramAssumption, Zenon DEF DcStream
<1>3. "length" \in DcStates /\ "request" \in DcStates /\ 0 \in Nat
    BY DEF DcStates
<1>4. At("length", 0) \in [at : DcStates, left : Nat] /\ At("length", 0).at = "length"
    BY <1>3, DcAtFacts, Zenon
<1>5. At("request", 0) \in [at : DcStates, left : Nat] /\ At("request", 0).at = "request"
    BY <1>3, DcAtFacts, Zenon
<1>6. dcState \in [at : DcStates, left : Nat] /\ dcState.at \in {"length", "request"}
    BY <1>1, <1>4, <1>5, Zenon
<1>7. /\ <<>> \in Seq(DcByte) /\ <<>> \in Seq(DcDatagrams)
      /\ [header |-> <<>>, name |-> <<>>] \in [header : Seq(DcByte), name : Seq(DcByte)]
    OBVIOUS
<1>8. DcTypeOK
    BY <1>1, <1>2, <1>3, <1>6, <1>7, Zenon DEF DcTypeOK, DcStates
<1>9. DcRoom
    BY <1>1, <1>6, DatagramAssumption DEF DcRoom
<1> QED BY <1>8, <1>9, Zenon DEF DcSafe

-----------------------------------------------------------------------------
(* The position.                                                           *)

\* What is buffered, in the chunk and on its way is what b holds behind p.
DcRests(b, buffer, data, wire, p) ==
    /\ RunOf(buffer, b, p) /\ RunOf(data, b, p + Len(buffer))
    /\ RunOf(wire, b, (p + Len(buffer)) + Len(data))
    /\ ((p + Len(buffer)) + Len(data)) + Len(wire) = Len(b)
DcAt(p) == DcRests(dcStream.bytes, dcBuffer, dcData, dcWire, p)

\* No frame of the stream is dropped.
DcAllAccepted == \A k \in 1 .. dcStream.count : DcAccepted(dcStream.kind, dcStream.frames[k])

\* The datagrams returned are the first ones sent.
DcReturned ==
    /\ Len(dcOut) <= dcStream.count
    /\ \A k \in 1 .. Len(dcOut) : dcOut[k] = DcMeant(dcStream.kind, dcStream.frames[k])

\* Behind the length field of the frame f that begins behind `at`.
DcWithin(f, at) ==
    LET n == DcNameLength(f.body) IN
    /\ dcTotal = Len(f.body)
    /\ \/ dcState.at = "header" /\ DcAt(at + DcLength)
       \/ /\ dcState.at = "name" /\ dcState.left = n
          /\ dcMeta.header = SubSeq(f.body, 1, DcHeader)
          /\ DcAt((at + DcLength) + DcHeader)
       \/ /\ dcState.at = "payload" /\ dcState.left = Len(f.body) - (DcHeader + n)
          /\ dcMeta.header = SubSeq(f.body, 1, DcHeader) /\ dcMeta.name = DcNameOf(f.body)
          /\ DcAt(((at + DcLength) + DcHeader) + n)

\* The decoder is in the frame behind those that were returned, where the
\* client's bytes say.
DcInStep ==
    LET k == Len(dcOut) + 1 IN
    /\ DcReturned
    /\ IF dcStream.kind = "icmp" THEN dcState.at = "request" /\ DcAt(dcStream.start[k])
       ELSE \/ dcState.at = "length" /\ DcAt(dcStream.start[k])
            \/ k <= dcStream.count /\ DcWithin(dcStream.frames[k], dcStream.start[k])

\* A read moves on by what it takes.
LEMMA DcReadsOn ==
    ASSUME DcTypeOK, NEW cap \in Nat, Len(dcBuffer) <= cap, BufferedRead(cap), NEW p \in Nat, DcAt(p)
    PROVE  /\ RunOf(DcRead(cap), dcStream.bytes, p)
           /\ Len(DcRead(cap)) < cap => DcRests(dcStream.bytes, dcBuffer', dcData', dcWire, p)
           /\ Len(DcRead(cap)) = cap =>
                DcRests(dcStream.bytes, dcBuffer', dcData', dcWire, p + cap)
<1> DEFINE b == dcStream.bytes
           d == DcDrain(cap)
           h == SubSeq(dcData, 1, d)
           r == SubSeq(dcData, d + 1, Len(dcData))
           field == DcRead(cap)
<1>1. dcBuffer \in Seq(DcByte) /\ dcData \in Seq(DcByte) /\ dcWire \in Seq(DcByte)
    BY Zenon DEF DcTypeOK
<1>2. /\ d \in 0 .. Len(dcData) /\ field \in Seq(DcByte) /\ field = dcBuffer \o h
      /\ Len(field) = Len(dcBuffer) + d
    BY <1>1, DcReadFacts, Zenon DEF DcRead
<1>3. dcData' = r /\ dcBuffer' = IF Len(field) < cap THEN field ELSE <<>>
    BY Zenon DEF BufferedRead
<1>4. h \in Seq(DcByte) /\ Len(r) = Len(dcData) - d
    BY <1>1, <1>2, CutHead, CutTail, Zenon
<1>5. /\ RunOf(dcBuffer, b, p) /\ RunOf(dcData, b, p + Len(dcBuffer))
      /\ RunOf(dcWire, b, (p + Len(dcBuffer)) + Len(dcData))
      /\ ((p + Len(dcBuffer)) + Len(dcData)) + Len(dcWire) = Len(b)
    BY Zenon DEF DcAt, DcRests
<1>6. p \in Int /\ p + Len(dcBuffer) \in Int
    BY <1>1
<1>7. RunOf(h, b, p + Len(dcBuffer)) /\ RunOf(r, b, (p + Len(dcBuffer)) + d)
    BY <1>1, <1>2, <1>5, <1>6, RunCut, Zenon
<1>8. RunOf(field, b, p)
    <2>1. RunOf(dcBuffer \o h, b, p)
        BY <1>1, <1>4, <1>5, <1>6, <1>7, RunJoin, Zenon
    <2> QED BY <1>2, <2>1, Zenon
<1> HIDE DEF d, h, r, field
<1>9. /\ (p + Len(dcBuffer)) + d = p + Len(field)
      /\ (p + Len(field)) + Len(r) = (p + Len(dcBuffer)) + Len(dcData)
    BY <1>1, <1>2, <1>4
<1>10. ASSUME Len(field) < cap
       PROVE  DcRests(dcStream.bytes, dcBuffer', dcData', dcWire, p)
    BY <1>3, <1>5, <1>7, <1>8, <1>9, <1>10, Zenon DEF DcRests
<1>11. ASSUME Len(field) = cap
       PROVE  DcRests(dcStream.bytes, dcBuffer', dcData', dcWire, p + cap)
    <2>1. ~(Len(field) < cap) /\ Len(<<>>) = 0 /\ (p + Len(field)) + 0 = p + Len(field)
        BY <1>1, <1>2, <1>11
    <2>2. RunOf(<<>>, b, p + Len(field))
        BY DEF RunOf
    <2> QED BY <1>3, <1>5, <1>7, <1>9, <1>11, <2>1, <2>2, Zenon DEF DcRests
<1> QED BY <1>8, <1>10, <1>11, Zenon DEF field

\* s is what stands in g behind `off`.
PartOf(s, g, off) == s = SubSeq(g, off + 1, off + Len(s))

\* What is read of a known part g of the stream.
LEMMA DcReadOf ==
    ASSUME NEW s \in Seq(DcByte), NEW b, NEW g \in Seq(DcByte), NEW q \in Nat, NEW off \in Nat,
           RunOf(s, b, q + off), off + Len(s) <= Len(g), \A i \in 1 .. Len(g) : b[q + i] = g[i]
    PROVE  PartOf(s, g, off)
<1> DEFINE t == SubSeq(g, off + 1, off + Len(s))
<1>1. t \in Seq(DcByte) /\ Len(t) = Len(s) /\ \A i \in 1 .. Len(s) : t[i] = g[off + i]
    OBVIOUS
<1>2. \A i \in 1 .. Len(s) : off + i \in 1 .. Len(g) /\ (q + off) + i = q + (off + i)
    OBVIOUS
<1>3. \A i \in 1 .. Len(s) : s[i] = t[i]
    BY <1>1, <1>2, Zenon DEF RunOf
<1> HIDE DEF t
<1>4. s = t
    BY <1>1, <1>3, SameSequence
<1> QED BY <1>4, Zenon DEF t, PartOf

\* What DatagramAssumption says of the k-th frame.
LEMMA DcFrameFacts ==
    ASSUME DcTypeOK, NEW k \in 1 .. dcStream.count
    PROVE  LET s == dcStream
               f == s.frames[k]
           IN /\ s.bytes \in Seq(DcByte) /\ f.body \in Seq(DcByte) /\ s.start[k] \in Nat
              /\ s.start[k + 1] = (s.start[k] + Len(f.length)) + Len(f.body)
              /\ s.start[k + 1] <= Len(s.bytes)
              /\ \A i \in 1 .. Len(f.length) : s.bytes[s.start[k] + i] = f.length[i]
              /\ \A i \in 1 .. Len(f.body) : s.bytes[(s.start[k] + Len(f.length)) + i] = f.body[i]
              /\ s.kind = "icmp" => Len(f.length) = 0 /\ Len(f.body) = DcRequest
              /\ s.kind # "icmp" => /\ f.length \in Seq(DcByte) /\ Len(f.length) = DcLength
                                    /\ Len(f.body) = DcU32[f.length]
<1> DEFINE s == dcStream
           f == s.frames[k]
<1>1. DcStream(s)
    BY DatagramAssumption, Zenon DEF DcTypeOK
<1>2. /\ s.kind \in {"udp", "icmp"} /\ s.bytes \in Seq(DcByte) /\ s.count \in Nat
      /\ s.start \in [1 .. (s.count + 1) -> 0 .. Len(s.bytes)]
      /\ DcFrame(s.kind, f) /\ s.start[k + 1] = (s.start[k] + Len(f.length)) + Len(f.body)
      /\ \A i \in 1 .. Len(f.length) : s.bytes[s.start[k] + i] = f.length[i]
      /\ \A i \in 1 .. Len(f.body) : s.bytes[(s.start[k] + Len(f.length)) + i] = f.body[i]
    BY <1>1, Zenon DEF DcStream
<1>3. k \in 1 .. (s.count + 1) /\ k + 1 \in 1 .. (s.count + 1)
    BY <1>2
<1>4. s.start[k] \in 0 .. Len(s.bytes) /\ s.start[k + 1] \in 0 .. Len(s.bytes)
    BY <1>2, <1>3, Zenon
<1>5. s.start[k] \in Nat /\ s.start[k + 1] <= Len(s.bytes)
    BY <1>2, <1>4
<1>6. f.body \in Seq(DcByte)
    BY <1>2, Zenon DEF DcFrame
<1>7. s.kind = "icmp" => Len(f.length) = 0 /\ Len(f.body) = DcRequest
    BY <1>2 DEF DcFrame
<1>8. s.kind # "icmp" => /\ f.length \in Seq(DcByte) /\ Len(f.length) = DcLength
                         /\ Len(f.body) = DcU32[f.length]
    <2>1. ASSUME s.kind # "icmp"
          PROVE  f.length \in [1 .. DcLength -> DcByte] /\ Len(f.body) = DcU32[f.length]
        BY <1>2, <2>1, Zenon DEF DcFrame
    <2>2. DcLength \in Nat
        BY DatagramAssumption
    <2>3. \A g \in [1 .. DcLength -> DcByte] : g \in Seq(DcByte) /\ Len(g) = DcLength
        BY <2>2
    <2> QED BY <2>1, <2>3, Zenon
<1> QED BY <1>2, <1>5, <1>6, <1>7, <1>8, Zenon

\* A chunk holds bytes of a frame.
LEMMA DcCurrent ==
    ASSUME DcSafe, DcInStep, dcData # <<>>
    PROVE  Len(dcOut) + 1 \in 1 .. dcStream.count
<1>1. /\ dcOut \in Seq(DcDatagrams) /\ dcBuffer \in Seq(DcByte) /\ dcData \in Seq(DcByte)
      /\ dcWire \in Seq(DcByte) /\ Len(dcOut) <= dcStream.count
    BY DcSafeFacts, Zenon DEF DcInStep, DcReturned
<1>2. /\ dcStream.count \in Nat /\ dcStream.bytes \in Seq(DcByte)
      /\ dcStream.start[dcStream.count + 1] = Len(dcStream.bytes)
    BY DatagramAssumption, DcSafeFacts, Zenon DEF DcStream
<1>3. Len(dcOut) \in Nat /\ Len(dcData) > 0 /\ Len(dcData) \in Nat
    BY <1>1
<1>4. Len(dcOut) # dcStream.count
    <2> SUFFICES ASSUME Len(dcOut) = dcStream.count PROVE FALSE
        OBVIOUS
    <2>1. ~(Len(dcOut) + 1 <= dcStream.count)
        BY <1>2
    <2>2. DcAt(dcStream.start[dcStream.count + 1])
        BY <2>1, Zenon DEF DcInStep
    <2>3. ((Len(dcStream.bytes) + Len(dcBuffer)) + Len(dcData)) + Len(dcWire) = Len(dcStream.bytes)
        BY <1>2, <2>2, Zenon DEF DcAt, DcRests
    <2>4. Len(dcStream.bytes) \in Nat /\ Len(dcBuffer) \in Nat /\ Len(dcWire) \in Nat
        BY <1>1, <1>2
    <2> QED BY <1>3, <2>3, <2>4
<1> QED BY <1>1, <1>2, <1>3, <1>4

\* A frame that is accepted has its header and its name.
LEMMA DcAcceptedFacts ==
    ASSUME DcSafe, DcAllAccepted, dcStream.kind # "icmp", NEW k \in 1 .. dcStream.count
    PROVE  LET body == dcStream.frames[k].body
               n == DcNameLength(body)
           IN /\ body \in Seq(DcByte) /\ n \in Nat /\ Len(body) \in Nat /\ DcHeader \in 1 .. Len(body)
              /\ Len(body) >= DcHeader /\ Len(body) >= DcHeader + n /\ Len(body) + n <= DcMaxIn
              /\ IsUtf8(DcNameOf(body))
<1> DEFINE body == dcStream.frames[k].body
           n == DcNameLength(body)
<1>1. body \in Seq(DcByte)
    BY DcFrameFacts, Zenon DEF DcSafe
<1>2. /\ Len(body) >= DcHeader /\ Len(body) >= DcHeader + n /\ Len(body) + n <= DcMaxIn
      /\ IsUtf8(DcNameOf(body))
    BY Zenon DEF DcAllAccepted, DcAccepted
<1> HIDE DEF body
<1>3. DcHeader \in 1 .. Len(body) /\ Len(body) \in Nat
    BY <1>1, <1>2, DcSafeFacts, SMTT(30)
<1>4. n \in Nat
    BY <1>1, <1>3, DcFieldFacts, Zenon DEF DcNameLength
<1> QED BY <1>1, <1>2, <1>3, <1>4, Zenon DEF body

\* Steps that leave the frame and what was returned alone.
LEMMA DcSameFrame ==
    ASSUME dcStream' = dcStream, dcOut' = dcOut
    PROVE  /\ DcReturned => DcReturned'
           /\ Len(dcOut') + 1 = Len(dcOut) + 1
           /\ dcStream'.frames[Len(dcOut') + 1] = dcStream.frames[Len(dcOut) + 1]
           /\ dcStream'.start[Len(dcOut') + 1] = dcStream.start[Len(dcOut) + 1]
           /\ dcStream'.count = dcStream.count /\ dcStream'.kind = dcStream.kind
           /\ dcStream'.bytes = dcStream.bytes
BY Zenon DEF DcReturned

\* process_client_length reads the length field of the frame.
LEMMA DcLengthInStep ==
    ASSUME DcSafe, DcAllAccepted, DcInStep, ProcessClientLength
    PROVE  DcInStep'
<1> DEFINE k == Len(dcOut) + 1
           f == dcStream.frames[k]
           at == dcStream.start[k]
           b == dcStream.bytes
           field == DcRead(DcLength)
<1>1. /\ dcState.at = "length" /\ dcData # <<>> /\ BufferedRead(DcLength)
      /\ dcStream' = dcStream /\ dcOut' = dcOut /\ dcWire' = dcWire
    BY Zenon DEF ProcessClientLength
<1>2. dcStream.kind # "icmp" /\ DcAt(at) /\ DcReturned
    BY <1>1, Zenon DEF DcInStep, DcWithin
<1>3. k \in 1 .. dcStream.count
    BY <1>1, DcCurrent, Zenon
<1>4. /\ f.length \in Seq(DcByte) /\ Len(f.length) = DcLength /\ Len(f.body) = DcU32[f.length]
      /\ at \in Nat /\ \A i \in 1 .. Len(f.length) : b[at + i] = f.length[i]
    BY <1>2, <1>3, DcFrameFacts, Zenon DEF DcSafe
<1>5. Len(f.body) >= DcHeader
    BY <1>2, <1>3, DcAcceptedFacts, Zenon
<1>6. DcLength \in Nat /\ Len(dcBuffer) <= DcLength /\ dcBuffer \in Seq(DcByte) /\ dcData \in Seq(DcByte)
    BY <1>1, DcSafeFacts DEF DcSafe, DcRoom
<1>7. /\ RunOf(field, b, at)
      /\ Len(field) < DcLength => DcRests(b, dcBuffer', dcData', dcWire, at)
      /\ Len(field) = DcLength => DcRests(b, dcBuffer', dcData', dcWire, at + DcLength)
    BY <1>1, <1>2, <1>4, <1>6, DcReadsOn, Zenon DEF DcSafe
<1>8. /\ field \in Seq(DcByte)
      /\ Len(field) < DcLength \/ (~(Len(field) < DcLength) /\ Len(field) = DcLength)
    BY <1>1, <1>6, DcReadTypes, Zenon
<1>9. CASE Len(field) < DcLength
    <2>1. dcState' = dcState
        BY <1>9, Zenon DEF ProcessClientLength
    <2>2. DcAt(dcStream.start[Len(dcOut) + 1])'
        BY <1>1, <1>7, <1>9, Zenon DEF DcAt
    <2> QED BY <1>1, <1>2, <2>1, <2>2, DcSameFrame, Zenon DEF DcInStep
<1>10. CASE ~(Len(field) < DcLength) /\ Len(field) = DcLength
    <2>1. field = f.length
        <3>1. \A i \in 1 .. Len(field) : field[i] = f.length[i]
            BY <1>4, <1>7, <1>10, Zenon DEF RunOf
        <3> HIDE DEF field, f
        <3> QED BY <1>4, <1>8, <1>10, <3>1, SameSequence
    <2>2. dcTotal' = Len(f.body) /\ dcState' = At("header", 0)
        BY <1>4, <1>5, <1>10, <2>1, Zenon DEF ProcessClientLength
    <2>3. dcState'.at = "header"
        BY <2>2 DEF At
    <2>4. DcRests(dcStream'.bytes, dcBuffer', dcData', dcWire', at + DcLength)
        BY <1>1, <1>7, <1>10, Zenon
    <2>5. k <= dcStream.count
        BY <1>3
    <2> HIDE DEF f, at, k
    <2>6. DcWithin(f, at)'
        BY <1>1, <2>2, <2>3, <2>4, Zenon DEF DcWithin, DcAt, f, at, k
    <2> QED BY <1>1, <1>2, <2>5, <2>6, DcSameFrame, Zenon DEF DcInStep, f, at, k
<1> QED BY <1>8, <1>9, <1>10, Zenon

\* The facts a step within a frame starts from.
LEMMA DcWithinFacts ==
    ASSUME DcSafe, DcAllAccepted, DcInStep, dcState.at \in {"header", "name", "payload"}
    PROVE  LET k == Len(dcOut) + 1
               f == dcStream.frames[k]
               q == dcStream.start[k] + DcLength
               n == DcNameLength(f.body)
           IN /\ dcStream.kind # "icmp" /\ DcReturned /\ k \in 1 .. dcStream.count
              /\ k <= dcStream.count /\ DcWithin(f, dcStream.start[k])
              /\ q \in Nat /\ n \in Nat /\ f.body \in Seq(DcByte) /\ Len(f.body) \in Nat
              /\ DcHeader \in 1 .. Len(f.body) /\ Len(f.body) >= DcHeader + n
              /\ \A i \in 1 .. Len(f.body) : dcStream.bytes[q + i] = f.body[i]
              /\ dcStream.start[k + 1] = q + Len(f.body)
<1> DEFINE k == Len(dcOut) + 1
           f == dcStream.frames[k]
           at == dcStream.start[k]
<1>1. dcState.at # "length" /\ dcState.at # "request"
    OBVIOUS
<1>2. dcStream.kind # "icmp" /\ DcReturned /\ k <= dcStream.count /\ DcWithin(f, at)
    BY <1>1, Zenon DEF DcInStep
<1>3. Len(dcOut) \in Nat /\ dcStream.count \in Nat /\ DcLength \in Nat
    <2>1. dcOut \in Seq(DcDatagrams) /\ dcStream.count \in Nat
        BY DatagramAssumption, DcSafeFacts, Zenon DEF DcStream
    <2> QED BY <2>1, DatagramAssumption
<1>4. k \in 1 .. dcStream.count
    BY <1>2, <1>3
<1>5. /\ at \in Nat /\ Len(f.length) = DcLength
      /\ \A i \in 1 .. Len(f.body) : dcStream.bytes[(at + DcLength) + i] = f.body[i]
      /\ dcStream.start[k + 1] = (at + DcLength) + Len(f.body)
    <2>1. DcTypeOK
        BY Zenon DEF DcSafe
    <2> QED BY <1>2, <1>4, <2>1, DcFrameFacts, ZenonT(30)
<1>6. at + DcLength \in Nat
    BY <1>3, <1>5, SMTT(30)
<1>7. LET n == DcNameLength(f.body) IN
      /\ f.body \in Seq(DcByte) /\ n \in Nat /\ Len(f.body) \in Nat /\ DcHeader \in 1 .. Len(f.body)
      /\ Len(f.body) >= DcHeader + n
    BY <1>2, <1>4, DcAcceptedFacts, Zenon
<1> QED BY <1>2, <1>4, <1>5, <1>6, <1>7, Zenon

\* process_client_fixed_header reads the header of the frame.
LEMMA DcHeaderInStep ==
    ASSUME DcSafe, DcAllAccepted, DcInStep, ProcessClientFixedHeader
    PROVE  DcInStep'
<1> DEFINE k == Len(dcOut) + 1
           f == dcStream.frames[k]
           q == dcStream.start[k] + DcLength
           b == dcStream.bytes
           n == DcNameLength(f.body)
           field == DcRead(DcHeader)
<1>1. /\ dcState.at = "header" /\ dcData # <<>> /\ BufferedRead(DcHeader)
      /\ dcStream' = dcStream /\ dcOut' = dcOut /\ dcWire' = dcWire /\ dcTotal' = dcTotal
    BY Zenon DEF ProcessClientFixedHeader
<1>2. /\ dcStream.kind # "icmp" /\ DcReturned /\ k \in 1 .. dcStream.count /\ k <= dcStream.count
      /\ DcWithin(f, dcStream.start[k])
      /\ q \in Nat /\ n \in Nat /\ f.body \in Seq(DcByte) /\ Len(f.body) \in Nat
      /\ DcHeader \in 1 .. Len(f.body) /\ Len(f.body) >= DcHeader + n
      /\ \A i \in 1 .. Len(f.body) : b[q + i] = f.body[i]
    BY <1>1, DcWithinFacts, Zenon
<1>3. dcTotal = Len(f.body) /\ DcAt(q)
    <2>1. dcState.at # "name" /\ dcState.at # "payload"
        BY <1>1
    <2> QED BY <1>2, <2>1, Zenon DEF DcWithin
<1>4. Len(f.body) + n <= DcMaxIn
    BY <1>2, DcAcceptedFacts, Zenon
<1>5. DcHeader \in Nat /\ Len(dcBuffer) <= DcHeader /\ dcBuffer \in Seq(DcByte) /\ dcData \in Seq(DcByte)
    BY <1>1, DcSafeFacts DEF DcSafe, DcRoom
<1>6. /\ RunOf(field, b, q)
      /\ Len(field) < DcHeader => DcRests(b, dcBuffer', dcData', dcWire, q)
      /\ Len(field) = DcHeader => DcRests(b, dcBuffer', dcData', dcWire, q + DcHeader)
    BY <1>1, <1>2, <1>3, <1>5, DcReadsOn, Zenon DEF DcSafe
<1>7. /\ field \in Seq(DcByte)
      /\ Len(field) < DcHeader \/ (~(Len(field) < DcHeader) /\ Len(field) = DcHeader)
    BY <1>1, <1>5, DcReadTypes, Zenon
<1>8. CASE Len(field) < DcHeader
    <2>1. dcState' = dcState
        BY <1>8, Zenon DEF ProcessClientFixedHeader
    <2>2. DcRests(dcStream'.bytes, dcBuffer', dcData', dcWire', q)
        BY <1>1, <1>6, <1>8, Zenon
    <2>3. DcWithin(dcStream.frames[Len(dcOut) + 1], dcStream.start[Len(dcOut) + 1])'
        BY <1>1, <1>3, <2>1, <2>2, Zenon DEF DcWithin, DcAt
    <2> QED BY <1>1, <1>2, <2>3, DcSameFrame, Zenon DEF DcInStep
<1>9. CASE ~(Len(field) < DcHeader) /\ Len(field) = DcHeader
    <2>1. field = SubSeq(f.body, 1, DcHeader)
        <3>1. 0 \in Nat /\ q + 0 = q /\ 0 + Len(field) = DcHeader /\ 0 + 1 = 1 /\ DcHeader <= Len(f.body)
            BY <1>2, <1>9
        <3>2. RunOf(field, b, q + 0) /\ 0 + Len(field) <= Len(f.body)
            BY <1>6, <3>1, Zenon
        <3> HIDE DEF field, b, q, f
        <3>3. PartOf(field, f.body, 0)
            BY <1>2, <1>7, <3>1, <3>2, DcReadOf, Zenon
        <3> QED BY <3>1, <3>3, Zenon DEF PartOf
    <2>2. DcNameLength(field) = n
        <3> HIDE DEF f, field
        <3>1. field[DcHeader] = f.body[DcHeader]
            BY <1>2, <2>1
        <3> QED BY <3>1, Zenon DEF DcNameLength
    <2>3. ~(dcTotal + n > DcMaxIn \/ dcTotal < DcHeader + n)
        <3> HIDE DEF f, n
        <3>1. DcMaxIn \in Nat
            BY DatagramAssumption
        <3> QED BY <1>2, <1>3, <1>4, <1>5, <3>1
    <2>4. dcState' = At("name", n) /\ dcMeta' = [dcMeta EXCEPT !.header = field]
        BY <1>9, <2>2, <2>3, Zenon DEF ProcessClientFixedHeader
    <2>5. dcState'.at = "name" /\ dcState'.left = n /\ dcMeta'.header = SubSeq(f.body, 1, DcHeader)
        <3>1. dcMeta \in [header : Seq(DcByte), name : Seq(DcByte)]
            BY DcSafeFacts, Zenon
        <3> HIDE DEF field, f, n
        <3> QED BY <2>1, <2>4, <3>1, Zenon DEF At
    <2>6. DcRests(dcStream'.bytes, dcBuffer', dcData', dcWire', q + DcHeader)
        BY <1>1, <1>6, <1>9, Zenon
    <2>7. DcWithin(dcStream.frames[Len(dcOut) + 1], dcStream.start[Len(dcOut) + 1])'
        BY <1>1, <1>3, <2>5, <2>6, Zenon DEF DcWithin, DcAt
    <2> QED BY <1>1, <1>2, <2>7, DcSameFrame, Zenon DEF DcInStep
<1> QED BY <1>7, <1>8, <1>9, Zenon

\* process_client_app_name reads the name in the frame.
LEMMA DcNameInStep ==
    ASSUME DcSafe, DcAllAccepted, DcInStep, ProcessClientAppName
    PROVE  DcInStep'
<1> DEFINE k == Len(dcOut) + 1
           f == dcStream.frames[k]
           q == dcStream.start[k] + DcLength
           b == dcStream.bytes
           n == DcNameLength(f.body)
           field == DcRead(n)
<1>1. /\ dcState.at = "name" /\ dcData # <<>> /\ BufferedRead(dcState.left)
      /\ dcStream' = dcStream /\ dcOut' = dcOut /\ dcWire' = dcWire /\ dcTotal' = dcTotal
    BY Zenon DEF ProcessClientAppName
<1>2. /\ dcStream.kind # "icmp" /\ DcReturned /\ k \in 1 .. dcStream.count /\ k <= dcStream.count
      /\ DcWithin(f, dcStream.start[k])
      /\ q \in Nat /\ n \in Nat /\ f.body \in Seq(DcByte) /\ Len(f.body) \in Nat
      /\ DcHeader \in 1 .. Len(f.body) /\ Len(f.body) >= DcHeader + n
      /\ \A i \in 1 .. Len(f.body) : b[q + i] = f.body[i]
    BY <1>1, DcWithinFacts, Zenon
<1>3. /\ dcTotal = Len(f.body) /\ dcState.left = n /\ DcAt(q + DcHeader)
      /\ dcMeta.header = SubSeq(f.body, 1, DcHeader)
    <2>1. dcState.at # "header" /\ dcState.at # "payload"
        BY <1>1
    <2> QED BY <1>2, <2>1, Zenon DEF DcWithin
<1>4. IsUtf8(DcNameOf(f.body))
    BY <1>2, DcAcceptedFacts, Zenon
<1>5. Len(dcBuffer) <= n /\ dcBuffer \in Seq(DcByte) /\ dcData \in Seq(DcByte) /\ q + DcHeader \in Nat
    <2>1. dcBuffer \in Seq(DcByte) /\ dcData \in Seq(DcByte) /\ DcHeader \in Nat
        BY DcSafeFacts
    <2>2. Len(dcBuffer) <= dcState.left
        BY <1>1, <2>1, DcSafeFacts, SMTT(30) DEF DcSafe, DcRoom
    <2>3. q + DcHeader \in Nat
        <3> HIDE DEF q
        <3> QED BY <1>2, <2>1
    <2> QED BY <1>3, <2>1, <2>2, <2>3, Zenon
<1>6. BufferedRead(n)
    BY <1>1, <1>3, Zenon
<1>7. /\ RunOf(field, b, q + DcHeader)
      /\ Len(field) < n => DcRests(b, dcBuffer', dcData', dcWire, q + DcHeader)
      /\ Len(field) = n => DcRests(b, dcBuffer', dcData', dcWire, (q + DcHeader) + n)
    BY <1>2, <1>3, <1>5, <1>6, DcReadsOn, Zenon DEF DcSafe
<1>8. /\ field \in Seq(DcByte)
      /\ Len(field) < n \/ (~(Len(field) < n) /\ Len(field) = n)
    BY <1>2, <1>5, <1>6, DcReadTypes, Zenon
<1>9. CASE Len(field) < n
    <2>1. dcState' = dcState /\ dcMeta' = dcMeta
        BY <1>3, <1>9, Zenon DEF ProcessClientAppName
    <2>2. DcRests(dcStream'.bytes, dcBuffer', dcData', dcWire', q + DcHeader)
        BY <1>1, <1>7, <1>9, Zenon
    <2>3. dcState'.at = "name" /\ dcState'.left = n
        BY <1>1, <1>3, <2>1, Zenon
    <2>4. DcWithin(dcStream.frames[Len(dcOut) + 1], dcStream.start[Len(dcOut) + 1])'
        BY <1>1, <1>3, <2>1, <2>2, <2>3, Zenon DEF DcWithin, DcAt
    <2> QED BY <1>1, <1>2, <2>4, DcSameFrame, Zenon DEF DcInStep
<1>10. CASE ~(Len(field) < n) /\ Len(field) = n
    <2>1. field = DcNameOf(f.body)
        <3>1. DcHeader \in Nat
            BY <1>2
        <3>2. DcHeader + Len(field) <= Len(f.body) /\ DcHeader + Len(field) = DcHeader + n
            <4> HIDE DEF field, f, n
            <4> QED BY <1>2, <1>10
        <3>3. RunOf(field, b, q + DcHeader)
            BY <1>7
        <3> HIDE DEF field, b, q, n
        <3>4. PartOf(field, f.body, DcHeader)
            BY <1>2, <1>8, <3>1, <3>2, <3>3, DcReadOf, Zenon
        <3> QED BY <3>2, <3>4, Zenon DEF PartOf, DcNameOf, n
    <2>2. dcMeta' = [dcMeta EXCEPT !.name = field] /\ dcState' = At("payload", dcTotal - DcHeader - n)
        BY <1>3, <1>4, <1>10, <2>1, Zenon DEF ProcessClientAppName
    <2>3. /\ dcState'.at = "payload" /\ dcState'.left = Len(f.body) - (DcHeader + n)
          /\ dcMeta'.header = SubSeq(f.body, 1, DcHeader) /\ dcMeta'.name = DcNameOf(f.body)
        <3>1. dcMeta \in [header : Seq(DcByte), name : Seq(DcByte)]
            BY DcSafeFacts, Zenon
        <3> HIDE DEF field, f, n
        <3>2. dcTotal - DcHeader - n = Len(f.body) - (DcHeader + n)
            BY <1>2, <1>3
        <3>3. dcState'.at = "payload" /\ dcState'.left = dcTotal - DcHeader - n
            BY <2>2 DEF At
        <3> QED BY <1>3, <2>1, <2>2, <3>1, <3>2, <3>3
    <2>4. DcRests(dcStream'.bytes, dcBuffer', dcData', dcWire', (q + DcHeader) + n)
        BY <1>1, <1>7, <1>10, Zenon
    <2>5. DcWithin(dcStream.frames[Len(dcOut) + 1], dcStream.start[Len(dcOut) + 1])'
        BY <1>1, <1>3, <2>3, <2>4, Zenon DEF DcWithin, DcAt
    <2> QED BY <1>1, <1>2, <2>5, DcSameFrame, Zenon DEF DcInStep
<1> QED BY <1>8, <1>9, <1>10, Zenon

\* A frame that is returned is the next one.
LEMMA DcReturnedNext ==
    ASSUME DcSafe, DcReturned, Len(dcOut) + 1 <= dcStream.count, dcStream' = dcStream,
           dcOut' = Append(dcOut, DcMeant(dcStream.kind, dcStream.frames[Len(dcOut) + 1]))
    PROVE  DcReturned' /\ Len(dcOut') = Len(dcOut) + 1
<1> DEFINE D(k) == DcMeant(dcStream.kind, dcStream.frames[k])
<1>1. dcOut \in Seq(DcDatagrams) /\ \A k \in 1 .. Len(dcOut) : dcOut[k] = D(k)
    BY DcSafeFacts, Zenon DEF DcReturned
<1>2. dcOut' = Append(dcOut, D(Len(dcOut) + 1))
    OBVIOUS
<1> HIDE DEF D
<1>3. Len(dcOut') = Len(dcOut) + 1 /\ \A k \in 1 .. Len(dcOut') : dcOut'[k] = D(k)
    BY <1>1, <1>2
<1> QED BY <1>3, Zenon DEF DcReturned, D

\* process_client_payload reads the payload of the frame and returns the frame.
LEMMA DcPayloadInStep ==
    ASSUME DcSafe, DcAllAccepted, DcInStep, ProcessClientPayload
    PROVE  DcInStep'
<1> DEFINE k == Len(dcOut) + 1
           f == dcStream.frames[k]
           q == dcStream.start[k] + DcLength
           b == dcStream.bytes
           n == DcNameLength(f.body)
           rest == Len(f.body) - (DcHeader + n)
           here == (q + DcHeader) + n
           field == DcRead(rest)
<1>1. /\ dcState.at = "payload" /\ dcData # <<>> /\ BufferedRead(dcState.left)
      /\ dcStream' = dcStream /\ dcWire' = dcWire /\ dcTotal' = dcTotal
    BY Zenon DEF ProcessClientPayload
<1>2. /\ dcStream.kind # "icmp" /\ DcReturned /\ k \in 1 .. dcStream.count /\ k <= dcStream.count
      /\ DcWithin(f, dcStream.start[k])
      /\ q \in Nat /\ n \in Nat /\ f.body \in Seq(DcByte) /\ Len(f.body) \in Nat
      /\ DcHeader \in 1 .. Len(f.body) /\ Len(f.body) >= DcHeader + n
      /\ \A i \in 1 .. Len(f.body) : b[q + i] = f.body[i]
      /\ dcStream.start[k + 1] = q + Len(f.body)
    BY <1>1, DcWithinFacts, Zenon
<1>3. /\ dcTotal = Len(f.body) /\ dcState.left = rest /\ DcAt(here)
      /\ dcMeta.header = SubSeq(f.body, 1, DcHeader) /\ dcMeta.name = DcNameOf(f.body)
    <2>1. dcState.at # "header" /\ dcState.at # "name"
        BY <1>1
    <2> QED BY <1>2, <2>1, Zenon DEF DcWithin
<1>4. /\ rest \in Nat /\ here \in Nat /\ DcHeader + n \in Nat /\ here = q + (DcHeader + n)
      /\ here + rest = q + Len(f.body) /\ (DcHeader + n) + rest = Len(f.body)
    <2>1. DcHeader \in Nat
        BY <1>2
    <2>2. q \in Nat /\ n \in Nat /\ Len(f.body) \in Nat /\ Len(f.body) >= DcHeader + n
        BY <1>2, Zenon
    <2> DEFINE l == Len(f.body)
    <2>3. q \in Nat /\ n \in Nat /\ l \in Nat /\ l >= DcHeader + n
        BY <2>2, Zenon
    <2> HIDE DEF l, n, q
    <2>4. /\ l - (DcHeader + n) \in Nat /\ (q + DcHeader) + n \in Nat /\ DcHeader + n \in Nat
          /\ (q + DcHeader) + n = q + (DcHeader + n) /\ (DcHeader + n) + (l - (DcHeader + n)) = l
        BY <2>1, <2>3
    <2>5. ((q + DcHeader) + n) + (l - (DcHeader + n)) = q + l
        BY <2>1, <2>3
    <2> QED BY <2>4, <2>5, Zenon DEF l
<1>5. Len(dcBuffer) <= rest /\ dcBuffer \in Seq(DcByte) /\ dcData \in Seq(DcByte)
    <2>1. dcBuffer \in Seq(DcByte) /\ dcData \in Seq(DcByte)
        BY DcSafeFacts
    <2>2. Len(dcBuffer) <= dcState.left
        BY <1>1, <2>1, DcSafeFacts DEF DcSafe, DcRoom
    <2> QED BY <1>3, <2>1, <2>2, Zenon
<1>6. BufferedRead(rest)
    BY <1>1, <1>3, Zenon
<1>7. /\ RunOf(field, b, here)
      /\ Len(field) < rest => DcRests(b, dcBuffer', dcData', dcWire, here)
      /\ Len(field) = rest => DcRests(b, dcBuffer', dcData', dcWire, here + rest)
    <2> HIDE DEF rest, here
    <2> QED BY <1>3, <1>4, <1>5, <1>6, DcReadsOn, Zenon DEF DcSafe
<1>8. /\ field \in Seq(DcByte)
      /\ Len(field) < rest \/ (~(Len(field) < rest) /\ Len(field) = rest)
    <2> HIDE DEF rest
    <2> QED BY <1>4, <1>5, <1>6, DcReadTypes, Zenon
<1>9. CASE Len(field) < rest
    <2>1. dcState' = dcState /\ dcMeta' = dcMeta /\ dcOut' = dcOut
        BY <1>3, <1>9, Zenon DEF ProcessClientPayload
    <2>2. DcRests(dcStream'.bytes, dcBuffer', dcData', dcWire', here)
        BY <1>1, <1>7, <1>9, Zenon
    <2>3. dcState'.at = "payload" /\ dcState'.left = rest
        BY <1>1, <1>3, <2>1, Zenon
    <2>4. DcWithin(dcStream.frames[Len(dcOut) + 1], dcStream.start[Len(dcOut) + 1])'
        BY <1>1, <1>3, <2>1, <2>2, <2>3, Zenon DEF DcWithin, DcAt
    <2> QED BY <1>1, <1>2, <2>1, <2>4, DcSameFrame, Zenon DEF DcInStep
<1>10. CASE ~(Len(field) < rest) /\ Len(field) = rest
    <2>1. field = SubSeq(f.body, (DcHeader + n) + 1, Len(f.body))
        <3>1. (DcHeader + n) + Len(field) = Len(f.body) /\ Len(f.body) <= Len(f.body)
            BY <1>2, <1>4, <1>10
        <3>2. RunOf(field, b, q + (DcHeader + n))
            BY <1>4, <1>7, Zenon
        <3> HIDE DEF field, b, q, n
        <3>3. PartOf(field, f.body, DcHeader + n)
            BY <1>2, <1>4, <1>8, <3>1, <3>2, DcReadOf, Zenon
        <3> QED BY <3>1, <3>3, Zenon DEF PartOf
    <2>2. /\ dcState' = At("length", 0)
          /\ dcOut' = Append(dcOut, DcDatagram(dcMeta.header, dcMeta.name, field))
        BY <1>3, <1>10, Zenon DEF ProcessClientPayload
    <2>3. DcDatagram(dcMeta.header, dcMeta.name, field) = DcMeant(dcStream.kind, f)
        BY <1>2, <1>3, <2>1, Zenon DEF DcMeant
    <2>4. DcReturned' /\ Len(dcOut') = k
        BY <1>1, <1>2, <2>2, <2>3, DcReturnedNext, Zenon
    <2>5. dcState'.at = "length"
        BY <2>2 DEF At
    <2>6. DcRests(dcStream'.bytes, dcBuffer', dcData', dcWire', dcStream.start[k + 1])
        BY <1>1, <1>2, <1>4, <1>7, <1>10, Zenon
    <2>7. DcAt(dcStream.start[Len(dcOut) + 1])'
        BY <1>1, <2>4, <2>6, Zenon DEF DcAt
    <2> QED BY <1>1, <1>2, <2>4, <2>5, <2>7, Zenon DEF DcInStep
<1> QED BY <1>8, <1>9, <1>10, Zenon

\* on_message_chunk of the ICMP codec reads a frame and returns it.
LEMMA DcRequestInStep ==
    ASSUME DcSafe, DcInStep, OnMessageChunk
    PROVE  DcInStep'
<1> DEFINE k == Len(dcOut) + 1
           f == dcStream.frames[k]
           at == dcStream.start[k]
           b == dcStream.bytes
           field == DcRead(DcRequest)
<1>1. /\ dcState.at = "request" /\ dcData # <<>> /\ BufferedRead(DcRequest)
      /\ dcStream' = dcStream /\ dcWire' = dcWire /\ dcState' = dcState
    BY Zenon DEF OnMessageChunk
<1>2. dcStream.kind = "icmp" /\ DcAt(at) /\ DcReturned
    BY <1>1, Zenon DEF DcInStep, DcWithin
<1>3. k \in 1 .. dcStream.count
    BY <1>1, DcCurrent, Zenon
<1>4. /\ f.body \in Seq(DcByte) /\ Len(f.length) = 0 /\ Len(f.body) = DcRequest /\ at \in Nat
      /\ \A i \in 1 .. Len(f.body) : b[(at + Len(f.length)) + i] = f.body[i]
      /\ dcStream.start[k + 1] = (at + Len(f.length)) + Len(f.body)
    BY <1>2, <1>3, DcFrameFacts, Zenon DEF DcSafe
<1>5. DcRequest \in Nat /\ Len(dcBuffer) <= DcRequest /\ dcBuffer \in Seq(DcByte) /\ dcData \in Seq(DcByte)
    BY <1>1, DcSafeFacts DEF DcSafe, DcRoom
<1>6. at + Len(f.length) = at
    <2> HIDE DEF at, f
    <2> QED BY <1>4
<1>7. /\ RunOf(field, b, at)
      /\ Len(field) < DcRequest => DcRests(b, dcBuffer', dcData', dcWire, at)
      /\ Len(field) = DcRequest => DcRests(b, dcBuffer', dcData', dcWire, at + DcRequest)
    BY <1>1, <1>2, <1>4, <1>5, DcReadsOn, Zenon DEF DcSafe
<1>8. /\ field \in Seq(DcByte)
      /\ Len(field) < DcRequest \/ (~(Len(field) < DcRequest) /\ Len(field) = DcRequest)
    BY <1>1, <1>5, DcReadTypes, Zenon
<1>9. CASE Len(field) < DcRequest
    <2>1. dcOut' = dcOut
        BY <1>9, Zenon DEF OnMessageChunk
    <2>2. DcAt(dcStream.start[Len(dcOut) + 1])'
        BY <1>1, <1>7, <1>9, <2>1, Zenon DEF DcAt
    <2> QED BY <1>1, <1>2, <2>1, <2>2, DcSameFrame, Zenon DEF DcInStep
<1>10. CASE ~(Len(field) < DcRequest) /\ Len(field) = DcRequest
    <2>1. field = f.body
        <3>1. \A i \in 1 .. Len(field) : field[i] = f.body[i]
            BY <1>4, <1>6, <1>7, <1>10, Zenon DEF RunOf
        <3> HIDE DEF field, f
        <3> QED BY <1>4, <1>8, <1>10, <3>1, SameSequence
    <2>2. dcOut' = Append(dcOut, DcMeant(dcStream.kind, f))
        BY <1>2, <1>10, <2>1, Zenon DEF OnMessageChunk, DcMeant
    <2>3. k <= dcStream.count
        BY <1>3
    <2>4. DcReturned' /\ Len(dcOut') = k
        BY <1>1, <1>2, <2>2, <2>3, DcReturnedNext, Zenon
    <2>5. DcRests(dcStream'.bytes, dcBuffer', dcData', dcWire', dcStream.start[k + 1])
        BY <1>1, <1>4, <1>6, <1>7, <1>10, Zenon
    <2>6. DcAt(dcStream.start[Len(dcOut) + 1])'
        BY <1>1, <2>4, <2>5, Zenon DEF DcAt
    <2> QED BY <1>1, <1>2, <2>4, <2>6, Zenon DEF DcInStep
<1> QED BY <1>8, <1>9, <1>10, Zenon

\* The frame that is being decoded begins within the stream.
LEMMA DcStartFacts ==
    ASSUME DcSafe, DcReturned
    PROVE  /\ Len(dcOut) \in Nat /\ dcStream.count \in Nat /\ dcStream.start[Len(dcOut) + 1] \in Nat
           /\ dcStream.start[dcStream.count + 1] = Len(dcStream.bytes) /\ dcStream.bytes \in Seq(DcByte)
<1>1. /\ dcOut \in Seq(DcDatagrams) /\ dcStream.count \in Nat /\ dcStream.bytes \in Seq(DcByte)
      /\ dcStream.start \in [1 .. (dcStream.count + 1) -> 0 .. Len(dcStream.bytes)]
      /\ dcStream.start[dcStream.count + 1] = Len(dcStream.bytes) /\ Len(dcOut) <= dcStream.count
    BY DatagramAssumption, DcSafeFacts, Zenon DEF DcStream, DcReturned
<1>2. Len(dcOut) \in Nat /\ Len(dcOut) + 1 \in 1 .. (dcStream.count + 1)
    BY <1>1
<1>3. dcStream.start[Len(dcOut) + 1] \in 0 .. Len(dcStream.bytes)
    BY <1>1, <1>2, Zenon
<1>4. dcStream.start[Len(dcOut) + 1] \in Nat
    BY <1>1, <1>3
<1> QED BY <1>1, <1>2, <1>4, Zenon

\* A chunk is taken from the front of what is to come.
LEMMA DcChunkRests ==
    ASSUME DcSafe, DcChunk, NEW p \in Nat, DcAt(p)
    PROVE  DcRests(dcStream.bytes, dcBuffer, dcData', dcWire', p)
<1> DEFINE b == dcStream.bytes
           h(n) == SubSeq(dcWire, 1, n)
           r(n) == SubSeq(dcWire, n + 1, Len(dcWire))
           q == p + Len(dcBuffer)
<1>1. PICK n \in 1 .. Len(dcWire) : dcData' = h(n) /\ dcWire' = r(n)
    BY Zenon DEF DcChunk
<1>2. dcWire \in Seq(DcByte) /\ dcBuffer \in Seq(DcByte) /\ dcData = <<>>
    BY DcSafeFacts, Zenon DEF DcChunk
<1>3. /\ RunOf(dcBuffer, b, p) /\ RunOf(dcWire, b, q + Len(dcData))
      /\ (q + Len(dcData)) + Len(dcWire) = Len(b)
    BY Zenon DEF DcAt, DcRests
<1>4. q \in Int /\ Len(dcData) = 0 /\ q + Len(dcData) = q /\ n \in 0 .. Len(dcWire)
    BY <1>2
<1>5. RunOf(dcWire, b, q)
    BY <1>3, <1>4, Zenon
<1>6. RunOf(h(n), b, q) /\ RunOf(r(n), b, q + n)
    BY <1>2, <1>4, <1>5, RunCut, Zenon
<1>7. Len(h(n)) = n /\ Len(r(n)) = Len(dcWire) - n
    BY <1>2, <1>4, CutHead, CutTail, Zenon
<1> HIDE DEF h, r, b, q
<1>8. (q + Len(h(n))) + Len(r(n)) = Len(b)
    BY <1>2, <1>3, <1>4, <1>7
<1> QED BY <1>1, <1>3, <1>6, <1>7, <1>8, Zenon DEF DcRests, b, q

\* A new chunk leaves the decoder where it is.
LEMMA DcChunkInStep ==
    ASSUME DcSafe, DcAllAccepted, DcInStep, DcChunk
    PROVE  DcInStep'
<1> DEFINE k == Len(dcOut) + 1
           f == dcStream.frames[k]
           at == dcStream.start[k]
           n == DcNameLength(f.body)
<1>1. UNCHANGED <<dcStream, dcState, dcTotal, dcBuffer, dcMeta, dcOut>>
    BY Zenon DEF DcChunk, dcDecoder
<1>2. \A p \in Nat : DcAt(p) => DcRests(dcStream'.bytes, dcBuffer', dcData', dcWire', p)
    BY <1>1, DcChunkRests, Zenon
<1>3. DcReturned /\ DcReturned' /\ at \in Nat /\ DcLength \in Nat /\ DcHeader \in Nat
    BY <1>1, DcStartFacts, DcSafeFacts, Zenon DEF DcInStep, DcReturned
<1>4. DcAt(at) => DcAt(dcStream.start[Len(dcOut) + 1])'
    BY <1>1, <1>2, <1>3, Zenon DEF DcAt
<1>5. ASSUME k <= dcStream.count, DcWithin(f, at), dcState.at \in {"header", "name", "payload"}
      PROVE  DcWithin(dcStream.frames[Len(dcOut) + 1], dcStream.start[Len(dcOut) + 1])'
    <2>1. n \in Nat
        BY <1>5, DcWithinFacts, Zenon
    <2>2. /\ at + DcLength \in Nat /\ (at + DcLength) + DcHeader \in Nat
          /\ ((at + DcLength) + DcHeader) + n \in Nat
        <3> HIDE DEF at, n
        <3> QED BY <1>3, <2>1
    <2>3. /\ DcAt(at + DcLength) => DcRests(dcStream'.bytes, dcBuffer', dcData', dcWire', at + DcLength)
          /\ DcAt((at + DcLength) + DcHeader) =>
               DcRests(dcStream'.bytes, dcBuffer', dcData', dcWire', (at + DcLength) + DcHeader)
          /\ DcAt(((at + DcLength) + DcHeader) + n) =>
               DcRests(dcStream'.bytes, dcBuffer', dcData', dcWire', ((at + DcLength) + DcHeader) + n)
        BY <1>2, <2>2, Zenon
    <2>4. DcWithin(f, at)
        BY <1>5
    <2> QED BY <1>1, <2>3, <2>4, Zenon DEF DcWithin, DcAt
<1>6. DcWithin(f, at) => dcState.at \in {"header", "name", "payload"}
    BY Zenon DEF DcWithin
<1> QED BY <1>1, <1>3, <1>4, <1>5, <1>6, Zenon DEF DcInStep

\* Accepted frames are never dropped.
LEMMA DcDroppingInStep == DcInStep => ~DcDropping
<1>1. ASSUME DcInStep, DcDropping PROVE FALSE
    <2>1. dcState.at = "dropping"
        BY <1>1, Zenon DEF DcDropping
    <2>2. dcState.at \in {"request", "length", "header", "name", "payload"}
        BY <1>1, Zenon DEF DcInStep, DcWithin
    <2> QED BY <2>1, <2>2
<1> QED BY <1>1

\* The inductive invariant: the decoder reads every frame where it is, as long
\* as none is dropped.
DcInv == DcSafe /\ (DcAllAccepted => DcInStep)

\* The invariant holds at first.
LEMMA DcInvInit == DcInit => DcInv
<1> SUFFICES ASSUME DcInit PROVE DcInv
    OBVIOUS
<1>1. DcSafe
    BY DcSafeInit
<1>2. /\ dcStream \in DcStreams /\ dcWire = dcStream.bytes
      /\ dcData = <<>> /\ dcBuffer = <<>> /\ dcOut = <<>>
      /\ dcState = At(IF dcStream.kind = "udp" THEN "length" ELSE "request", 0)
    BY Zenon DEF DcInit
<1>3. /\ dcStream.kind \in {"udp", "icmp"} /\ dcStream.count \in Nat /\ dcStream.start[1] = 0
      /\ dcStream.bytes \in Seq(DcByte)
    BY <1>2, DatagramAssumption, Zenon DEF DcStream
<1>4. dcState.at = IF dcStream.kind = "icmp" THEN "request" ELSE "length"
    BY <1>2, <1>3 DEF At
<1>5. Len(dcOut) = 0 /\ Len(dcOut) + 1 = 1 /\ Len(dcOut) <= dcStream.count /\ 1 .. Len(dcOut) = {}
    BY <1>2, <1>3
<1>6. DcReturned
    BY <1>5, Zenon DEF DcReturned
<1>7. DcAt(0)
    <2>1. RunOf(<<>>, dcStream.bytes, 0) /\ Len(<<>>) = 0 /\ 0 + 0 = 0
        BY DEF RunOf
    <2>2. RunOf(dcStream.bytes, dcStream.bytes, 0) /\ 0 + Len(dcStream.bytes) = Len(dcStream.bytes)
        BY <1>3 DEF RunOf
    <2> QED BY <1>2, <2>1, <2>2, Zenon DEF DcAt, DcRests
<1> QED BY <1>1, <1>3, <1>4, <1>5, <1>6, <1>7, Zenon DEF DcInv, DcInStep

\* Every step keeps the invariant.
LEMMA DcInvStep == DcInv /\ [DcNext]_dcVars => DcInv'
<1> SUFFICES ASSUME DcInv, [DcNext]_dcVars PROVE DcInv'
    OBVIOUS
<1>1. DcSafe /\ DcSafe'
    BY DcSafeStep, Zenon DEF DcInv
<1>2. dcStream' = dcStream
    BY Zenon DEF DcNext, dcVars, DcChunk, ProcessClientLength, ProcessClientFixedHeader, ProcessClientAppName,
       ProcessClientPayload, DcDropping, OnMessageChunk
<1>3. ASSUME DcAllAccepted' PROVE DcInStep'
    <2>1. DcAllAccepted /\ DcInStep
        BY <1>2, <1>3, Zenon DEF DcAllAccepted, DcInv
    <2>2. CASE DcNext
        BY <1>1, <2>1, <2>2, DcChunkInStep, DcLengthInStep, DcHeaderInStep, DcNameInStep, DcPayloadInStep,
           DcDroppingInStep, DcRequestInStep, Zenon DEF DcNext
    <2>3. CASE UNCHANGED dcVars
        <3>1. /\ UNCHANGED <<dcStream, dcWire, dcData, dcState>>
              /\ UNCHANGED <<dcTotal, dcBuffer, dcMeta, dcOut>>
            BY <2>3, Zenon DEF dcVars, dcDecoder
        <3> QED BY <2>1, <3>1, Zenon DEF DcInStep, DcReturned, DcWithin, DcAt
    <2> QED BY <2>2, <2>3, Zenon
<1> QED BY <1>1, <1>3, Zenon DEF DcInv

\* With every byte taken, the decoder is behind the last frame, or in it and
\* short of nothing.
LEMMA DcAtEnd ==
    ASSUME DcSafe, DcAllAccepted, DcInStep, dcWire = <<>>, dcData = <<>>, Len(dcOut) # dcStream.count
    PROVE  dcState.at \in {"name", "payload"} /\ Len(dcOut) = dcStream.count - 1
<1> DEFINE k == Len(dcOut) + 1
           f == dcStream.frames[k]
           at == dcStream.start[k]
           next == dcStream.start[k + 1]
           n == DcNameLength(f.body)
           l == Len(f.body)
           end == Len(dcStream.bytes)
           held == Len(dcBuffer)
<1>1. DcReturned /\ Len(dcOut) <= dcStream.count
    BY Zenon DEF DcInStep, DcReturned
<1>2. /\ Len(dcOut) \in Nat /\ dcStream.count \in Nat /\ at \in Nat
      /\ dcStream.start[dcStream.count + 1] = end /\ dcStream.bytes \in Seq(DcByte)
    BY <1>1, DcStartFacts, Zenon
<1>3. k \in 1 .. dcStream.count
    BY <1>1, <1>2
<1>4. /\ f.body \in Seq(DcByte) /\ next = (at + Len(f.length)) + l /\ next <= end
      /\ dcStream.kind = "icmp" => Len(f.length) = 0 /\ l = DcRequest
      /\ dcStream.kind # "icmp" => Len(f.length) = DcLength
    BY <1>3, DcFrameFacts, Zenon DEF DcSafe
<1>5. held \in Nat /\ l \in Nat /\ end \in Nat
    <2>1. dcBuffer \in Seq(DcByte) /\ f.body \in Seq(DcByte) /\ dcStream.bytes \in Seq(DcByte)
        BY <1>2, <1>4, DcSafeFacts, Zenon
    <2> HIDE DEF f
    <2> QED BY <2>1
<1>6. \A p : DcAt(p) => ((p + held) + 0) + 0 = end
    <2>1. Len(<<>>) = 0
        OBVIOUS
    <2> QED BY <2>1, Zenon DEF DcAt, DcRests
<1>7. /\ DcLength \in Nat /\ DcHeader \in Nat /\ DcRequest \in Nat
      /\ DcLength > 0 /\ DcHeader > 0 /\ DcRequest > 0
    BY DcSafeFacts, Zenon
<1>8. dcState.at \notin {"request", "length"}
    <2>1. ASSUME dcState.at = "request" PROVE FALSE
        <3>1. held < DcRequest
            BY <2>1 DEF DcSafe, DcRoom
        <3>2. dcStream.kind = "icmp" /\ DcAt(at)
            BY <2>1 DEF DcInStep, DcWithin
        <3>3. ((at + held) + 0) + 0 = end /\ next = (at + 0) + DcRequest
            BY <1>4, <1>6, <3>2, Zenon
        <3>4. next <= end
            BY <1>4
        <3> HIDE DEF at, next, end, held
        <3> QED BY <1>2, <1>5, <1>7, <3>1, <3>3, <3>4
    <2>2. ASSUME dcState.at = "length" PROVE FALSE
        <3>1. held < DcLength
            BY <2>2 DEF DcSafe, DcRoom
        <3>2. dcStream.kind # "icmp" /\ DcAt(at)
            BY <2>2 DEF DcInStep, DcWithin
        <3>3. ((at + held) + 0) + 0 = end /\ next = (at + DcLength) + l
            BY <1>4, <1>6, <3>2, Zenon
        <3> HIDE DEF at, next, end, held, l
        <3> QED BY <1>2, <1>4, <1>5, <1>7, <3>1, <3>3
    <2> QED BY <2>1, <2>2
<1>9. dcStream.kind # "icmp" /\ DcWithin(f, at) /\ dcState.at \in {"header", "name", "payload"}
    <2>1. dcStream.kind # "icmp" /\ DcWithin(f, at)
        BY <1>8, Zenon DEF DcInStep
    <2> QED BY <2>1, Zenon DEF DcWithin
<1>10. n \in Nat /\ l >= DcHeader /\ l >= DcHeader + n
    BY <1>3, <1>9, DcAcceptedFacts, Zenon
<1>11. next = (at + DcLength) + l
    BY <1>4, <1>9, Zenon
<1>12. dcState.at # "header"
    <2>1. ASSUME dcState.at = "header" PROVE FALSE
        <3>1. held < DcHeader
            BY <2>1 DEF DcSafe, DcRoom
        <3>2. DcAt(at + DcLength)
            BY <1>9, <2>1 DEF DcWithin
        <3>3. (((at + DcLength) + held) + 0) + 0 = end
            BY <1>6, <3>2, Zenon
        <3> HIDE DEF at, next, end, held, l, n
        <3> QED BY <1>2, <1>4, <1>5, <1>7, <1>10, <1>11, <3>1, <3>3
    <2> QED BY <2>1
<1>13. next >= end
    <2>1. held <= dcState.left
        <3>1. held < dcState.left \/ dcBuffer = <<>>
            BY <1>9, <1>12 DEF DcSafe, DcRoom
        <3>2. dcState.left \in Nat
            BY DcSafeFacts
        <3> QED BY <1>5, <3>1, <3>2
    <2>2. ASSUME dcState.at = "name" PROVE dcState.left = n /\ DcAt((at + DcLength) + DcHeader)
        BY <1>9, <2>2 DEF DcWithin
    <2>3. ASSUME dcState.at = "payload"
          PROVE  dcState.left = l - (DcHeader + n) /\ DcAt(((at + DcLength) + DcHeader) + n)
        BY <1>9, <2>3 DEF DcWithin
    <2>4. /\ dcState.at = "name" => ((((at + DcLength) + DcHeader) + held) + 0) + 0 = end
          /\ dcState.at = "payload" => (((((at + DcLength) + DcHeader) + n) + held) + 0) + 0 = end
        BY <1>6, <2>2, <2>3, Zenon
    <2>5. dcState.at = "name" \/ dcState.at = "payload"
        BY <1>9, <1>12
    <2> HIDE DEF at, next, end, held, l, n
    <2>6. CASE dcState.at = "name"
        BY <1>2, <1>5, <1>7, <1>10, <1>11, <2>1, <2>2, <2>4, <2>6
    <2>7. CASE dcState.at = "payload"
        BY <1>2, <1>5, <1>7, <1>10, <1>11, <2>1, <2>3, <2>4, <2>7
    <2> QED BY <2>5, <2>6, <2>7, Zenon
<1>14. k = dcStream.count
    <2>1. ASSUME k # dcStream.count PROVE FALSE
        <3>1. k + 1 \in 1 .. dcStream.count
            BY <1>2, <1>3, <2>1
        <3>2. /\ dcStream.frames[k + 1].body \in Seq(DcByte) /\ next \in Nat
              /\ Len(dcStream.frames[k + 1].length) = DcLength
              /\ dcStream.start[(k + 1) + 1] =
                    (next + Len(dcStream.frames[k + 1].length)) + Len(dcStream.frames[k + 1].body)
              /\ dcStream.start[(k + 1) + 1] <= end
            BY <1>9, <3>1, DcFrameFacts, Zenon DEF DcSafe
        <3>3. Len(dcStream.frames[k + 1].body) \in Nat
            BY <3>2
        <3>4. (next + DcLength) + Len(dcStream.frames[k + 1].body) <= end
            BY <3>2, Zenon
        <3> DEFINE m == Len(dcStream.frames[k + 1].body)
        <3>5. next \in Nat /\ m \in Nat /\ (next + DcLength) + m <= end
            BY <3>2, <3>3, <3>4, Zenon
        <3> HIDE DEF next, end, m
        <3> QED BY <1>5, <1>7, <1>13, <3>5
    <2> QED BY <2>1
<1> QED BY <1>2, <1>9, <1>12, <1>14

\* The invariant gives the property.
LEMMA DcInvHarmless == DcInv => DcCuttingIsHarmless
<1> SUFFICES ASSUME DcInv PROVE DcCuttingIsHarmless
    OBVIOUS
<1>1. DcSafe /\ DcRoom
    BY Zenon DEF DcInv, DcSafe
<1>2. ASSUME DcAllAccepted
      PROVE  /\ DcReturned
             /\ dcWire = <<>> /\ dcData = <<>> =>
                   \/ Len(dcOut) = dcStream.count
                   \/ dcState.at \in {"name", "payload"} /\ Len(dcOut) = dcStream.count - 1
    <2>1. DcInStep
        BY <1>2, Zenon DEF DcInv
    <2> QED BY <1>1, <1>2, <2>1, DcAtEnd, Zenon DEF DcInStep
<1>3. dcState.at \in {"name", "payload"} => Len(dcBuffer) < dcState.left \/ dcState.left = 0
    BY <1>1, DcSafeFacts DEF DcRoom
<1> QED BY <1>1, <1>2, <1>3, Zenon DEF DcCuttingIsHarmless, DcAllAccepted, DcReturned, DcRoom

\* The variables keep their types.
THEOREM DecoderTypes == DcSpec => []DcTypeOK
<1>1. DcSafe => DcTypeOK
    BY Zenon DEF DcSafe
<1> QED BY <1>1, DcSafeInit, DcSafeStep, PTL DEF DcSpec

\* For every stream of frames that http_udp_codec accepts, or of ICMP requests,
\* and every way it is cut into chunks, the datagrams returned are those sent,
\* and buffered_read is entered with room in the buffer.
THEOREM DatagramsAreIntact == DcSpec => []DcCuttingIsHarmless
<1>1. DcInit => DcInv
    BY DcInvInit
<1>2. DcInv /\ [DcNext]_dcVars => DcInv'
    BY DcInvStep
<1>3. DcInv => DcCuttingIsHarmless
    BY DcInvHarmless
<1> QED BY <1>1, <1>2, <1>3, PTL DEF DcSpec

-----------------------------------------------------------------------------
(* The heads of messages: HttpMessages.  Each loop keeps the length it has *)
(* found equal to the one the headers it has read or written give.         *)

\* A header that says nothing of the length changes nothing.
LEMMA MeansNeutral ==
    ASSUME NEW hs, NEW n \in Nat, NEW l, NEW o, HmMeans(hs, n, l, o),
           ~HmIsChunked(hs[n + 1]), ~HmIsSized(hs[n + 1])
    PROVE  HmMeans(hs, n + 1, l, o)
<1>1. \A i \in 1 .. (n + 1) : i \in 1 .. n \/ i = n + 1
    OBVIOUS
<1>2. 1 .. n \subseteq 1 .. (n + 1)
    OBVIOUS
<1> QED BY <1>1, <1>2, Zenon DEF HmMeans

\* `chunked` counts wherever it stands.
LEMMA MeansChunked ==
    ASSUME NEW hs, NEW n \in Nat, NEW o, HmIsChunked(hs[n + 1])
    PROVE  HmMeans(hs, n + 1, HmChunked, o)
<1>1. n + 1 \in 1 .. (n + 1)
    OBVIOUS
<1> QED BY <1>1, Zenon DEF HmMeans

\* What is read of a field.
LEMMA FieldOf ==
    ASSUME NEW hs \in Seq(HmField), NEW i \in 1 .. Len(hs)
    PROVE  hs[i] \in HmField /\ hs[i].value \in Nat /\ hs[i].name \in HmName /\ hs[i].names \subseteq HmName
<1>1. hs[i] \in HmField
    OBVIOUS
<1> QED BY <1>1 DEF HmField

\* Once `chunked`, always `chunked`.
LEMMA MeansStaysChunked ==
    ASSUME NEW hs \in Seq(HmField), NEW n \in Nat, n + 1 <= Len(hs),
           HmMeans(hs, n, HmChunked, HmUnspecified)
    PROVE  HmMeans(hs, n + 1, HmChunked, HmUnspecified)
<1>0. \A i \in 1 .. n : i \in 1 .. (n + 1) /\ i \in 1 .. Len(hs)
    OBVIOUS
<1>1. \A i \in 1 .. n : i \in 1 .. (n + 1) /\ hs[i].value \in Nat
    BY <1>0, FieldOf, Zenon
<1>2. HmChunked \notin Nat /\ HmChunked # HmUnspecified
    BY DEF HmChunked, HmUnspecified
<1>3. PICK i \in 1 .. n : HmIsChunked(hs[i])
    BY <1>1, <1>2, Zenon DEF HmMeans
<1> QED BY <1>1, <1>3, Zenon DEF HmMeans

\* The first Content-Length counts, unless the message is `chunked`.
LEMMA MeansSized ==
    ASSUME NEW hs \in Seq(HmField), NEW n \in Nat, n + 1 <= Len(hs), NEW l,
           HmMeans(hs, n, l, HmUnspecified), HmIsSized(hs[n + 1])
    PROVE  HmMeans(hs, n + 1, IF l = HmUnspecified THEN hs[n + 1].value ELSE l, HmUnspecified)
<1>0. \A i \in 1 .. (n + 1) : (i \in 1 .. n \/ i = n + 1) /\ i \in 1 .. Len(hs)
    OBVIOUS
<1>1. \A i \in 1 .. (n + 1) : (i \in 1 .. n \/ i = n + 1) /\ hs[i].value \in Nat
    BY <1>0, FieldOf, Zenon
<1>2. 1 .. n \subseteq 1 .. (n + 1) /\ n + 1 \in 1 .. (n + 1) /\ (n + 1) - 1 = n
    OBVIOUS
<1>3. HmUnspecified \notin Nat /\ HmChunked # HmUnspecified
    BY DEF HmChunked, HmUnspecified
<1>4. ~HmIsChunked(hs[n + 1])
    BY DEF HmIsChunked, HmIsSized
<1>5. ASSUME l = HmUnspecified PROVE HmMeans(hs, n + 1, hs[n + 1].value, HmUnspecified)
    <2>1. \A i \in 1 .. n : ~HmIsChunked(hs[i]) /\ ~HmIsSized(hs[i])
        BY <1>1, <1>2, <1>3, <1>5, Zenon DEF HmMeans
    <2> QED BY <2>1, <1>1, <1>2, <1>4, Zenon DEF HmMeans
<1>6. ASSUME l # HmUnspecified PROVE HmMeans(hs, n + 1, l, HmUnspecified)
    BY <1>1, <1>2, <1>4, <1>6, Zenon DEF HmMeans
<1> QED BY <1>5, <1>6, Zenon

\* The length depends on the headers that are read only.
LEMMA MeansSame ==
    ASSUME NEW hs, NEW gs, NEW n \in Nat, NEW l, NEW o, HmMeans(hs, n, l, o),
           \A i \in 1 .. n : gs[i] = hs[i]
    PROVE  HmMeans(gs, n, l, o)
<1>1. \A i \in 1 .. n : 1 .. (i - 1) \subseteq 1 .. n
    OBVIOUS
<1> QED BY <1>1, Zenon DEF HmMeans

\* A header written behind the others.
LEMMA Written ==
    ASSUME NEW out \in Seq(HmField), NEW h \in HmField
    PROVE  /\ Append(out, h) \in Seq(HmField) /\ Len(Append(out, h)) = Len(out) + 1
           /\ \A i \in 1 .. Len(out) : Append(out, h)[i] = out[i]
           /\ Append(out, h)[Len(out) + 1] = h
OBVIOUS

\* The length the headers written give, when one is added.
LEMMA WrittenMeans ==
    ASSUME NEW out \in Seq(HmField), NEW h \in HmField, NEW l,
           HmMeans(out, Len(out), l, HmUnspecified)
    PROVE  /\ ~HmIsChunked(h) /\ ~HmIsSized(h)
              => HmMeans(Append(out, h), Len(Append(out, h)), l, HmUnspecified)
           /\ HmIsChunked(h) => HmMeans(Append(out, h), Len(Append(out, h)), HmChunked, HmUnspecified)
           /\ HmIsSized(h) => HmMeans(Append(out, h), Len(Append(out, h)),
                                      IF l = HmUnspecified THEN h.value ELSE l, HmUnspecified)
<1> DEFINE gs == Append(out, h)
           n == Len(out)
<1>1. /\ gs \in Seq(HmField) /\ Len(gs) = n + 1 /\ gs[n + 1] = h
      /\ \A i \in 1 .. n : gs[i] = out[i]
    BY Written
<1>2. n \in Nat /\ n + 1 <= Len(gs)
    BY <1>1
<1> HIDE DEF gs, n
<1>3. HmMeans(gs, n, l, HmUnspecified)
    BY <1>1, <1>2, MeansSame, Zenon DEF n
<1>4. ~HmIsChunked(h) /\ ~HmIsSized(h) => HmMeans(gs, n + 1, l, HmUnspecified)
    BY <1>1, <1>2, <1>3, MeansNeutral, Zenon
<1>5. HmIsChunked(h) => HmMeans(gs, n + 1, HmChunked, HmUnspecified)
    BY <1>1, <1>2, MeansChunked, Zenon
<1>6. HmIsSized(h) => HmMeans(gs, n + 1, IF l = HmUnspecified THEN h.value ELSE l, HmUnspecified)
    BY <1>1, <1>2, <1>3, MeansSized, Zenon
<1> QED BY <1>1, <1>4, <1>5, <1>6, Zenon DEF gs

\* There is one Host header, and it names v.
HmOneHost(out, v) ==
    \E i \in 1 .. Len(out) : HmNames(out, "host") = {i} /\ out[i].value = v

\* The headers of one name, when one is added.
LEMMA WrittenNames ==
    ASSUME NEW out \in Seq(HmField), NEW h \in HmField, NEW name
    PROVE  /\ h.name # name => HmNames(Append(out, h), name) = HmNames(out, name)
           /\ h.name = name => HmNames(Append(out, h), name)
                                 = HmNames(out, name) \union {Len(out) + 1}
<1>1. \A i : i \in 1 .. (Len(out) + 1) <=> i \in 1 .. Len(out) \/ i = Len(out) + 1
    OBVIOUS
<1>2. Len(out) + 1 \notin 1 .. Len(out)
    OBVIOUS
<1> DEFINE gs == Append(out, h)
           n == Len(out)
<1>3. /\ Len(gs) = n + 1 /\ gs[n + 1] = h
      /\ \A i \in 1 .. n : gs[i] = out[i]
    BY Written
<1>4. HmNames(gs, name) = {i \in 1 .. (n + 1) : gs[i].name = name}
    BY <1>3, Zenon DEF HmNames
<1>5. HmNames(out, name) = {i \in 1 .. n : out[i].name = name}
    BY DEF HmNames
<1> HIDE DEF gs, n
<1>6. \A i : i \in HmNames(gs, name) <=> i \in HmNames(out, name) \/ (i = n + 1 /\ h.name = name)
    BY <1>1, <1>2, <1>3, <1>4, <1>5, Zenon DEF n
<1>7. h.name # name => HmNames(gs, name) = HmNames(out, name)
    BY <1>6, Zenon
<1>8. h.name = name => HmNames(gs, name) = HmNames(out, name) \union {n + 1}
    BY <1>6, Zenon
<1> QED BY <1>7, <1>8, Zenon DEF gs, n

\* The map g is hs with the header h: all the others stay, and there is no new
\* one but h.
HmGrown(hs, h, g) ==
    /\ g \in Seq(HmHeader) /\ Len(g) = Len(hs) + 1
    /\ \A i \in 1 .. Len(hs) : \E j \in 1 .. Len(g) : g[j] = hs[i]
    /\ \E j \in 1 .. Len(g) : g[j] = h
    /\ \A j \in 1 .. Len(g) : g[j] = h \/ \E i \in 1 .. Len(hs) : g[j] = hs[i]

\* A header put into the map.
LEMMA InsertedHeader ==
    ASSUME NEW hs \in Seq(HmHeader), NEW k \in 0 .. Len(hs), NEW h \in HmHeader
    PROVE  HmGrown(hs, h, HmInserted(hs, k, h))
<1> DEFINE l == Len(hs)
<1>0. l \in Nat /\ k \in 0 .. l /\ \A i \in 1 .. l : hs[i] \in HmHeader
    OBVIOUS
<1>1. HmInserted(hs, k, h) = [i \in 1 .. (l + 1) |->
          IF i <= k THEN hs[i] ELSE IF i = k + 1 THEN h ELSE hs[i - 1]]
    BY Zenon DEF HmInserted
<1>e. hs \in Seq(HmHeader) /\ Len(hs) = l
    OBVIOUS
<1> HIDE DEF l
<1> DEFINE g == HmInserted(hs, k, h)
<1>2. \A i \in 1 .. l : (i <= k => g[i] = hs[i]) /\ (i > k => g[i + 1] = hs[i])
    BY <1>0, <1>1
<1>3. g[k + 1] = h /\ k + 1 \in 1 .. (l + 1)
    BY <1>0, <1>1
<1>4. \A j \in 1 .. (l + 1) : g[j] = h \/ \E i \in 1 .. l : g[j] = hs[i]
    <2> TAKE j \in 1 .. (l + 1)
    <2>1. CASE j <= k
        BY <2>1, <1>0, <1>2
    <2>2. CASE j = k + 1
        BY <2>2, <1>3
    <2>3. CASE j > k + 1
        <3>1. j - 1 \in 1 .. l /\ j - 1 > k /\ (j - 1) + 1 = j
            BY <2>3, <1>0
        <3>2. g[j] = hs[j - 1]
            BY <3>1, <1>2
        <3> QED BY <3>1, <3>2
    <2> QED BY <2>1, <2>2, <2>3, <1>0
<1>5. \A i \in 1 .. l : i \in 1 .. (l + 1) /\ i + 1 \in 1 .. (l + 1) /\ (i <= k \/ i > k)
    BY <1>0
<1>6. \A i \in 1 .. l : \E j \in 1 .. (l + 1) : g[j] = hs[i]
    BY <1>2, <1>5, Zenon
<1>7. \A j \in 1 .. (l + 1) : g[j] \in HmHeader
    BY <1>0, <1>4, Zenon
<1>8. g \in [1 .. (l + 1) -> HmHeader]
    BY <1>1, <1>7, Zenon
<1>9. g \in Seq(HmHeader) /\ Len(g) = l + 1
    BY <1>0, <1>8
<1> HIDE DEF g
<1>10. HmGrown(hs, h, g)
    BY <1>e, <1>3, <1>4, <1>6, <1>9, Zenon DEF HmGrown
<1> QED BY <1>10, Zenon DEF g

-----------------------------------------------------------------------------
(* The loops.                                                              *)

\* The headers of the request that were visited are in the map, but for Host.
HmKept(n) ==
    \A i \in 1 .. n : hmReq.headers[i].name # "host" =>
        \E j \in 1 .. Len(hmHeaders) : hmHeaders[j] = hmReq.headers[i]

\* When the request names its host once, no Host header is in the map, and the host is known once it was named.
HmHostKnown ==
    /\ HmNames(hmHeaders, "host") = {}
    /\ hmHost = HmNoHost <=> /\ hmReq.authority = HmNoHost
                             /\ \A i \in 1 .. (hmPos - 1) : hmReq.headers[i].name # "host"

\* decode_request's loop.
HmDecoding ==
    /\ hmPos <= Len(hmReq.headers) + 1 /\ HmKept(hmPos - 1)
    /\ HmNamedOnce => HmHostKnown
    /\ hmHosted = FALSE /\ hmLength = HmUnspecified /\ hmOut = <<>>

\* The Host header written so far.
HmHostWritten ==
    IF hmHosted THEN HmOneHost(hmOut, hmHost)
    ELSE HmNames(hmOut, "host") = {}

\* serialize_request's loop: the body length is that of the headers written,
\* and it is known once a header gave it.
HmSerializing ==
    /\ hmPos <= Len(hmHeaders) + 1 /\ HmKept(Len(hmReq.headers))
    /\ HmMeans(hmOut, Len(hmOut), hmLength, HmUnspecified)
    /\ \A j \in 1 .. (hmPos - 1) :
          HmIsChunked(hmHeaders[j]) \/ HmIsSized(hmHeaders[j]) => hmLength # HmUnspecified
    /\ HmHostWritten

\* convert_response's loop: the body length is that of the headers read, and
\* only a `chunked` response has its length headers dropped.
HmConverting ==
    /\ hmPos <= Len(hmRes.headers) + 1
    /\ HmPlainHead =>
          /\ HmMeans(hmRes.headers, hmPos - 1, hmLength, HmUnspecified)
          /\ (hmDrop \intersect {"content-length", "transfer-encoding"} # {} => hmLength = HmChunked)
    /\ "keep-alive" \in hmDrop
    /\ hmReq.version = "2" => \A i \in 1 .. Len(hmOut) :
          hmOut[i].name \notin {"connection", "keep-alive", "transfer-encoding"}

HmInv ==
    /\ HmTypeOK
    /\ hmPc = "decode" => HmDecoding
    /\ hmPc = "serialize" => HmSerializing
    /\ hmPc = "convert" => HmConverting
    /\ HmHeadsAgree

\* The message heads are sequences of headers.
LEMMA HeadTypes ==
    ASSUME HmTypeOK
    PROVE  /\ hmReq.headers \in Seq(HmHeader) /\ hmRes.headers \in Seq(HmHeader)
           /\ hmReq.authority \in Nat
BY DEF HmTypeOK, HmExchange

\* A header is a field.
LEMMA HeadersAreFields ==
    ASSUME NEW hs \in Seq(HmHeader)
    PROVE  hs \in Seq(HmField) /\ \A i \in 1 .. Len(hs) : hs[i] \in HmHeader /\ hs[i] \in HmField
<1>1. HmHeader \subseteq HmField
    BY HeadsAssumption
<1> QED BY <1>1

\* The Host header the endpoint writes.
LEMMA HostHeader ==
    ASSUME HmTypeOK
    PROVE  /\ HmHostHeader \in HmField /\ HmHostHeader.name = "host" /\ HmHostHeader.value = hmHost
           /\ ~HmIsChunked(HmHostHeader) /\ ~HmIsSized(HmHostHeader)
<1>1. HmHostHeader.name = "host" /\ HmHostHeader.value = hmHost
    BY Zenon DEF HmHostHeader
<1>2. HmHostHeader \in HmField
    <2>1. hmHost \in Nat
        BY Zenon DEF HmTypeOK
    <2>2. {} \in SUBSET HmName
        BY Zenon
    <2>3. "host" \in HmName
        BY HeadsAssumption
    <2> QED BY <2>1, <2>2, <2>3 DEF HmHostHeader, HmField
<1>3. ~HmIsChunked(HmHostHeader) /\ ~HmIsSized(HmHostHeader)
    BY <1>1 DEF HmIsChunked, HmIsSized
<1> QED BY <1>1, <1>2, <1>3, Zenon

\* Exchanges start in the invariant.
LEMMA HmInitInv ==
    ASSUME HmInit
    PROVE  HmInv
<1>1. PICK x \in HmExchanges : HmStart(x)
    BY Zenon DEF HmInit
<1>2. HmExchange(x)
    BY HeadsAssumption, Zenon
<1>3. HmExchange([req |-> hmReq, res |-> hmRes]) /\ hmHost \in Nat
    BY <1>1, <1>2 DEF HmStart, HmExchange
<1>4. HmTypeOK
    <2>1. hmPc = "decode" /\ hmPos = 1 /\ hmHosted = FALSE /\ hmLength = HmUnspecified /\ hmDrop = {}
        BY <1>1, Zenon DEF HmStart
    <2>2. hmHeaders \in Seq(HmHeader) /\ hmOut \in Seq(HmField)
        BY <1>1 DEF HmStart
    <2>3. 1 \in Nat \ {0}
        OBVIOUS
    <2> QED BY <1>3, <2>1, <2>2, <2>3, Zenon DEF HmTypeOK
<1>5. hmReq.headers \in Seq(HmHeader) /\ hmHost = hmReq.authority
    BY <1>1, <1>4, HeadTypes DEF HmStart
<1>6. HmDecoding
    <2>1. 1 .. (1 - 1) = {} /\ 1 .. Len(hmHeaders) = {}
        BY <1>1 DEF HmStart
    <2>2. hmPos = 1 /\ hmPos <= Len(hmReq.headers) + 1
        BY <1>1, <1>5 DEF HmStart
    <2>3. HmKept(hmPos - 1)
        BY <2>1, <2>2, Zenon DEF HmKept
    <2>4. HmHostKnown
        BY <2>1, <2>2, <1>5, Zenon DEF HmHostKnown, HmNames
    <2> QED BY <1>1, <2>2, <2>3, <2>4, Zenon DEF HmDecoding, HmStart
<1>7. hmPc = "decode"
    BY <1>1, Zenon DEF HmStart
<1> QED BY <1>4, <1>6, <1>7, Zenon DEF HmInv, HmHeadsAgree

\* decode_request visits a header.
LEMMA DecodeKeeps ==
    ASSUME HmInv, DecodeHeader
    PROVE  HmInv'
<1> DEFINE h == hmReq.headers[hmPos]
<1>1. /\ HmTypeOK /\ HmDecoding /\ hmPc = "decode" /\ hmPc' = "decode" /\ hmPos' = hmPos + 1
      /\ hmReq' = hmReq /\ hmRes' = hmRes
      /\ hmHosted' = hmHosted /\ hmLength' = hmLength /\ hmDrop' = hmDrop /\ hmOut' = hmOut
    BY SMTT(30) DEF HmInv, DecodeHeader
<1>2. hmPos \in 1 .. Len(hmReq.headers) /\ hmReq.headers \in Seq(HmHeader) /\ hmHeaders \in Seq(HmHeader)
    BY <1>1, HeadTypes DEF DecodeHeader, HmTypeOK
<1>3. h \in HmHeader /\ h.value \in Nat /\ (h.name = "host" => h.value # HmNoHost)
    <2>1. h \in HmHeader /\ h \in HmField
        BY <1>2, HeadersAreFields
    <2> QED BY <2>1, HeadsAssumption DEF HmField
<1>4. \/ h.name = "host" /\ hmHost = HmNoHost /\ hmHost' = h.value /\ hmHeaders' = hmHeaders
      \/ /\ ~(h.name = "host" /\ hmHost = HmNoHost) /\ hmHost' = hmHost
         /\ \E k \in 0 .. Len(hmHeaders) : hmHeaders' = HmInserted(hmHeaders, k, h)
    BY Zenon DEF DecodeHeader
<1>n. hmPos \in Nat /\ hmPos - 1 \in Nat /\ hmPos' - 1 = hmPos /\ hmPos' <= Len(hmReq.headers) + 1
      /\ hmPos' \in Nat \ {0} /\ \A i \in 1 .. hmPos : i \in 1 .. (hmPos - 1) \/ i = hmPos
    BY <1>1, <1>2
<1> HIDE DEF h
<1>5. /\ hmHeaders' \in Seq(HmHeader)
      /\ \A i \in 1 .. Len(hmHeaders) : \E j \in 1 .. Len(hmHeaders') : hmHeaders'[j] = hmHeaders[i]
      /\ h.name # "host" => \E j \in 1 .. Len(hmHeaders') : hmHeaders'[j] = h
      /\ \A j \in 1 .. Len(hmHeaders') : \/ hmHeaders'[j] = h /\ ~(h.name = "host" /\ hmHost = HmNoHost)
                                         \/ \E i \in 1 .. Len(hmHeaders) : hmHeaders'[j] = hmHeaders[i]
    <2>1. CASE hmHeaders' = hmHeaders /\ h.name = "host"
        BY <2>1, <1>2, Zenon
    <2>2. ASSUME NEW k \in 0 .. Len(hmHeaders), hmHeaders' = HmInserted(hmHeaders, k, h),
                 ~(h.name = "host" /\ hmHost = HmNoHost)
          PROVE <1>5!:
        <3>1. HmGrown(hmHeaders, h, hmHeaders')
            BY <1>2, <1>3, <2>2, InsertedHeader, Zenon
        <3> QED BY <2>2, <3>1, Zenon DEF HmGrown
    <2> QED BY <1>4, <2>1, <2>2, Zenon
<1>6. hmHost' \in Nat
    BY <1>1, <1>3, <1>4, Zenon DEF HmTypeOK
<1>7. HmTypeOK'
    BY <1>1, <1>n, <1>5, <1>6, Zenon DEF HmTypeOK, HmExchange
<1>8. HmKept(hmPos - 1)'
    <2> SUFFICES ASSUME NEW i \in 1 .. hmPos, hmReq.headers[i].name # "host"
                 PROVE  \E j \in 1 .. Len(hmHeaders') : hmHeaders'[j] = hmReq.headers[i]
        BY <1>1, <1>n, Zenon DEF HmKept
    <2>1. CASE i = hmPos
        BY <2>1, <1>5, Zenon DEF h
    <2>2. CASE i \in 1 .. (hmPos - 1)
        <3>1. PICK j \in 1 .. Len(hmHeaders) : hmHeaders[j] = hmReq.headers[i]
            BY <2>2, <1>1, Zenon DEF HmDecoding, HmKept
        <3>2. PICK m \in 1 .. Len(hmHeaders') : hmHeaders'[m] = hmHeaders[j]
            BY <1>5, Zenon
        <3> QED BY <3>1, <3>2, Zenon
    <2> QED BY <2>1, <2>2, <1>n, Zenon
<1>9. ASSUME HmNamedOnce' PROVE HmHostKnown'
    <2>0. HmNamedOnce
        BY <1>1, <1>9, Zenon DEF HmNamedOnce
    <2>1. HmHostKnown
        BY <2>0, <1>1, Zenon DEF HmDecoding
    <2>h. hmPos \in HmNames(hmReq.headers, "host") <=> h.name = "host"
        BY <1>2, Zenon DEF HmNames, h
    <2>2. ASSUME h.name = "host" PROVE hmHost = HmNoHost
        <3>1. hmReq.authority = HmNoHost /\ HmNames(hmReq.headers, "host") = {hmPos}
            BY <2>0, <2>2, <2>h, Zenon DEF HmNamedOnce
        <3>2. \A i \in 1 .. (hmPos - 1) : i \in 1 .. Len(hmReq.headers) /\ i # hmPos
            BY <1>2
        <3>3. \A i \in 1 .. (hmPos - 1) : hmReq.headers[i].name # "host"
            BY <3>1, <3>2, Zenon DEF HmNames
        <3> QED BY <2>1, <3>1, <3>3, Zenon DEF HmHostKnown
    <2>3. HmNames(hmHeaders', "host") = {}
        <3>1. \A i \in 1 .. Len(hmHeaders) : hmHeaders[i].name # "host"
            BY <2>1, Zenon DEF HmHostKnown, HmNames
        <3>2. \A j \in 1 .. Len(hmHeaders') : hmHeaders'[j].name # "host"
            BY <3>1, <1>5, <2>2, Zenon
        <3> QED BY <3>2, Zenon DEF HmNames
    <2>4. hmHost' = HmNoHost <=> /\ hmReq.authority = HmNoHost
                                 /\ \A i \in 1 .. hmPos : hmReq.headers[i].name # "host"
        <3>0. \A i \in 1 .. (hmPos - 1) : i \in 1 .. hmPos
            BY <1>n
        <3>s. hmPos \in 1 .. hmPos
            BY <1>2
        <3>1. CASE h.name = "host"
            BY <3>1, <3>s, <2>2, <1>3, <1>4, Zenon DEF h
        <3>2. CASE h.name # "host"
            BY <3>2, <3>0, <1>n, <2>1, <1>4, Zenon DEF h, HmHostKnown
        <3> QED BY <3>1, <3>2, Zenon
    <2> QED BY <2>3, <2>4, <1>1, <1>n, Zenon DEF HmHostKnown
<1>10. HmDecoding'
    BY <1>1, <1>n, <1>8, <1>9, Zenon DEF HmDecoding
<1> QED BY <1>1, <1>7, <1>10, Zenon DEF HmInv, HmHeadsAgree

\* serialize_request's loop begins.
LEMMA ForwardKeeps ==
    ASSUME HmInv, HmForward
    PROVE  HmInv'
<1>1. /\ HmTypeOK /\ HmDecoding /\ hmPc' \in {"refused", "serialize"} /\ hmPos' = 1
      /\ hmReq' = hmReq /\ hmRes' = hmRes /\ hmHost' = hmHost /\ hmHeaders' = hmHeaders
      /\ hmHosted' = hmHosted /\ hmLength' = hmLength /\ hmDrop' = hmDrop /\ hmOut' = hmOut
    BY Zenon DEF HmInv, HmForward, HmDecoded
<1>2. hmPos > Len(hmReq.headers) /\ hmPos <= Len(hmReq.headers) + 1
    BY <1>1, Zenon DEF HmForward, HmDecoded, HmDecoding
<1>3. Len(hmReq.headers) \in Nat /\ hmPos \in Nat /\ Len(hmHeaders) \in Nat
    BY <1>1, HeadTypes DEF HmTypeOK
<1>4. hmPos - 1 = Len(hmReq.headers)
    BY <1>2, <1>3
<1>5. HmKept(Len(hmReq.headers))
    BY <1>1, <1>4, Zenon DEF HmDecoding
<1>6. 1 .. Len(hmOut) = {} /\ 1 .. (1 - 1) = {} /\ 1 <= Len(hmHeaders) + 1 /\ 1 \in Nat \ {0}
    BY <1>1, <1>3 DEF HmDecoding
<1>7. HmSerializing'
    <2>1. HmMeans(hmOut, Len(hmOut), hmLength, HmUnspecified)
        BY <1>1, <1>6, Zenon DEF HmDecoding, HmMeans
    <2>2. HmHostWritten
        BY <1>1, <1>6, Zenon DEF HmDecoding, HmHostWritten, HmNames
    <2> QED BY <1>1, <1>5, <1>6, <2>1, <2>2, Zenon DEF HmSerializing, HmKept, HmHostWritten
<1>8. HmTypeOK'
    BY <1>1, <1>6, Zenon DEF HmTypeOK, HmExchange
<1>9. hmPc' \notin {"decode", "convert", "sent", "answered", "proxied"}
    BY <1>1
<1> QED BY <1>7, <1>8, <1>9, Zenon DEF HmInv, HmHeadsAgree

\* The reverse proxy's request.
LEMMA EncodeKeeps ==
    ASSUME HmInv, EncodeRequest
    PROVE  HmInv'
<1> DEFINE host == IF hmHost = HmNoHost THEN <<>> ELSE <<HmHostHeader>>
<1>1. /\ HmTypeOK /\ HmDecoding /\ hmPc' = "proxied" /\ hmPos' = hmPos
      /\ hmReq' = hmReq /\ hmRes' = hmRes /\ hmHost' = hmHost /\ hmHeaders' = hmHeaders
      /\ hmHosted' = hmHosted /\ hmLength' = hmLength /\ hmDrop' = hmDrop
      /\ hmOut' = host \o hmHeaders
    BY Zenon DEF HmInv, EncodeRequest, HmDecoded
<1>2. hmPos > Len(hmReq.headers) /\ hmPos <= Len(hmReq.headers) + 1
    BY <1>1, Zenon DEF EncodeRequest, HmDecoded, HmDecoding
<1>3. Len(hmReq.headers) \in Nat /\ hmPos \in Nat /\ hmHeaders \in Seq(HmHeader)
    BY <1>1, HeadTypes DEF HmTypeOK
<1>4. hmPos - 1 = Len(hmReq.headers)
    BY <1>2, <1>3
<1>5. hmHeaders \in Seq(HmField) /\ HmHostHeader \in HmField /\ HmHostHeader.name = "host"
    BY <1>1, <1>3, HeadersAreFields, HostHeader, Zenon
<1>6. hmOut' \in Seq(HmField)
    <2>1. host \in Seq(HmField)
        BY <1>5
    <2> HIDE DEF host
    <2> QED BY <1>1, <1>5, <2>1
<1>7. HmTypeOK'
    BY <1>1, <1>6, Zenon DEF HmTypeOK, HmExchange
<1>8. ASSUME HmNamedOnce PROVE \E i \in 1 .. Len(hmOut') : HmNames(hmOut', "host") = {i}
    <2>1. HmHostKnown
        BY <1>1, <1>8, Zenon DEF HmDecoding
    <2>2. hmHost # HmNoHost
        <3>1. CASE hmReq.authority # HmNoHost
            BY <2>1, <3>1, Zenon DEF HmHostKnown
        <3>2. CASE hmReq.authority = HmNoHost
            <4>1. PICK i : i \in HmNames(hmReq.headers, "host")
                BY <1>8, <3>2, Zenon DEF HmNamedOnce
            <4>2. i \in 1 .. (hmPos - 1) /\ hmReq.headers[i].name = "host"
                BY <4>1, <1>4, Zenon DEF HmNames
            <4> QED BY <2>1, <4>2, Zenon DEF HmHostKnown
        <3> QED BY <3>1, <3>2, Zenon
    <2>3. hmOut' = <<HmHostHeader>> \o hmHeaders
        BY <1>1, <2>2, Zenon
    <2>4. /\ Len(hmOut') = Len(hmHeaders) + 1 /\ hmOut'[1] = HmHostHeader
          /\ \A i \in 1 .. Len(hmOut') : i # 1 => i - 1 \in 1 .. Len(hmHeaders) /\ hmOut'[i] = hmHeaders[i - 1]
        BY <1>5, <2>3
    <2>5. 1 \in 1 .. Len(hmOut')
        BY <1>5, <2>4
    <2>6. \A i \in 1 .. Len(hmHeaders) : hmHeaders[i].name # "host"
        BY <2>1, Zenon DEF HmHostKnown, HmNames
    <2>7. \A i \in 1 .. Len(hmOut') : hmOut'[i].name = "host" <=> i = 1
        BY <1>5, <2>4, <2>6, Zenon
    <2>8. HmNames(hmOut', "host") = {1}
        BY <2>5, <2>7, Zenon DEF HmNames
    <2> QED BY <2>5, <2>8, Zenon
<1>9. hmPc' \notin {"decode", "convert", "serialize", "sent", "answered"}
    BY <1>1
<1>10. HmHeadsAgree'
    BY <1>1, <1>8, <1>9, Zenon DEF HmHeadsAgree, HmProxiedAgrees, HmNamedOnce
<1> QED BY <1>7, <1>9, <1>10, Zenon DEF HmInv

\* One Host header among those written, when another header follows.
LEMMA HostStays ==
    ASSUME NEW out \in Seq(HmField), NEW h \in HmField, h.name # "host", NEW v, HmOneHost(out, v)
    PROVE  HmOneHost(Append(out, h), v)
<1>1. HmNames(Append(out, h), "host") = HmNames(out, "host")
    BY WrittenNames, Zenon
<1>2. PICK i \in 1 .. Len(out) : HmNames(out, "host") = {i} /\ out[i].value = v
    BY Zenon DEF HmOneHost
<1>3. i \in 1 .. Len(Append(out, h)) /\ Append(out, h)[i] = out[i]
    BY Written
<1> QED BY <1>1, <1>2, <1>3, Zenon DEF HmOneHost

\* The first Host header written.
LEMMA HostAdded ==
    ASSUME NEW out \in Seq(HmField), NEW h \in HmField, h.name = "host", HmNames(out, "host") = {}
    PROVE  HmOneHost(Append(out, h), h.value)
<1>1. HmNames(Append(out, h), "host") = {Len(out) + 1}
    <2>1. HmNames(Append(out, h), "host") = HmNames(out, "host") \union {Len(out) + 1}
        BY WrittenNames, Zenon
    <2> QED BY <2>1, Zenon
<1>2. Len(out) + 1 \in 1 .. Len(Append(out, h)) /\ Append(out, h)[Len(out) + 1] = h
    BY Written
<1> QED BY <1>1, <1>2, Zenon DEF HmOneHost

\* The body length once a header is written.
LEMMA LengthWritten ==
    ASSUME NEW out \in Seq(HmField), NEW h \in HmField, NEW l \in Nat \union {HmChunked, HmUnspecified},
           HmMeans(out, Len(out), l, HmUnspecified), ~(h.name = "content-length" /\ l >= 0)
    PROVE  /\ HmMeans(Append(out, h), Len(Append(out, h)), RequestLength(l, h), HmUnspecified)
           /\ RequestLength(l, h) \in Nat \union {HmChunked, HmUnspecified}
           /\ l # HmUnspecified \/ HmIsChunked(h) \/ HmIsSized(h) => RequestLength(l, h) # HmUnspecified
<1>1. h.value \in Nat /\ HmChunked # HmUnspecified /\ HmUnspecified \notin Nat
    BY DEF HmField, HmChunked, HmUnspecified
<1>2. CASE HmIsSized(h)
    <2>1. ~HmIsChunked(h) /\ RequestLength(l, h) = IF l = HmUnspecified THEN h.value ELSE l
        BY <1>2 DEF HmIsSized, HmIsChunked, RequestLength
    <2> QED BY <1>1, <1>2, <2>1, WrittenMeans, Zenon
<1>3. CASE HmIsChunked(h)
    <2>1. RequestLength(l, h) = HmChunked
        BY <1>3 DEF HmIsChunked, RequestLength
    <2> QED BY <1>1, <1>3, <2>1, WrittenMeans, Zenon
<1>4. CASE ~HmIsSized(h) /\ ~HmIsChunked(h)
    <2>1. RequestLength(l, h) = l
        BY <1>4, Zenon DEF HmIsChunked, HmIsSized, RequestLength
    <2> QED BY <1>1, <1>4, <2>1, WrittenMeans, Zenon
<1> QED BY <1>2, <1>3, <1>4, Zenon

\* serialize_request visits a header.
LEMMA SerializeKeeps ==
    ASSUME HmInv, SerializeHeader
    PROVE  HmInv'
<1> DEFINE h == hmHeaders[hmPos]
<1>1. /\ HmTypeOK /\ HmSerializing /\ hmPc = "serialize" /\ hmPos' = hmPos + 1
      /\ hmReq' = hmReq /\ hmRes' = hmRes /\ hmHost' = hmHost /\ hmHeaders' = hmHeaders /\ hmDrop' = hmDrop
    BY Zenon DEF HmInv, SerializeHeader
<1>2. hmPos \in 1 .. Len(hmHeaders) /\ hmHeaders \in Seq(HmHeader) /\ hmOut \in Seq(HmField)
    BY <1>1 DEF SerializeHeader, HmTypeOK
<1>3. h \in HmField
    BY <1>2, HeadersAreFields
<1>4. IF h.name \in {"proxy-authorization", "proxy-connection"}
      THEN UNCHANGED <<hmPc, hmHosted, hmLength, hmOut>>
      ELSE IF h.name = "host" THEN SerializeHost ELSE SerializeOther(h)
    BY Zenon DEF SerializeHeader
<1>n. /\ hmPos' - 1 = hmPos /\ hmPos' <= Len(hmHeaders) + 1 /\ hmPos' \in Nat \ {0}
      /\ \A j \in 1 .. hmPos : j \in 1 .. (hmPos - 1) \/ j = hmPos
    BY <1>1, <1>2
<1> HIDE DEF h
<1>5. HmKept(Len(hmReq.headers))'
    BY <1>1, Zenon DEF HmSerializing, HmKept
<1>t. ASSUME hmPc' \in {"serialize", "refused"}, hmHosted' \in BOOLEAN, hmOut' \in Seq(HmField),
             hmLength' \in Nat \union {HmChunked, HmUnspecified}
      PROVE  HmTypeOK'
    <2>1. hmPc' \in {"decode", "serialize", "sent", "refused", "proxied", "convert", "answered"}
        BY <1>t
    <2> QED BY <1>t, <2>1, <1>1, <1>n, Zenon DEF HmTypeOK, HmExchange
\* A step that goes on in the loop.
<1>6. ASSUME hmPc' = "serialize", hmHosted' \in BOOLEAN, hmOut' \in Seq(HmField),
             hmLength' \in Nat \union {HmChunked, HmUnspecified},
             HmMeans(hmOut', Len(hmOut'), hmLength', HmUnspecified),
             hmLength # HmUnspecified \/ HmIsChunked(h) \/ HmIsSized(h) => hmLength' # HmUnspecified,
             HmHostWritten'
      PROVE  HmInv'
    <2>1. \A j \in 1 .. hmPos :
             HmIsChunked(hmHeaders[j]) \/ HmIsSized(hmHeaders[j]) => hmLength' # HmUnspecified
        BY <1>1, <1>6, <1>n, Zenon DEF HmSerializing, h
    <2>2. HmSerializing'
        BY <2>1, <1>1, <1>5, <1>6, <1>n, Zenon DEF HmSerializing
    <2>3. hmPc' \notin {"decode", "convert", "sent", "answered", "proxied"}
        BY <1>6
    <2>4. HmTypeOK'
        BY <1>6, <1>t, Zenon
    <2> QED BY <2>2, <2>3, <2>4, Zenon DEF HmInv, HmHeadsAgree
\* A request that is refused.
<1>7. ASSUME hmPc' = "refused", UNCHANGED <<hmHosted, hmLength, hmOut>>
      PROVE  HmInv'
    <2>1. hmPc' \notin {"decode", "convert", "serialize", "sent", "answered", "proxied"}
        BY <1>7
    <2>2. HmTypeOK'
        BY <1>1, <1>7, <1>t, Zenon DEF HmTypeOK
    <2> QED BY <2>1, <2>2, Zenon DEF HmInv, HmHeadsAgree
<1>8. CASE h.name \in {"proxy-authorization", "proxy-connection"}
    <2>1. hmPc' = "serialize" /\ hmHosted' = hmHosted /\ hmLength' = hmLength /\ hmOut' = hmOut
        BY <1>1, <1>4, <1>8, Zenon
    <2>2. ~HmIsChunked(h) /\ ~HmIsSized(h)
        BY <1>8 DEF HmIsChunked, HmIsSized
    <2>3. HmHostWritten'
        BY <2>1, <1>1, Zenon DEF HmSerializing, HmHostWritten
    <2> QED BY <2>1, <2>2, <2>3, <1>1, <1>6, Zenon DEF HmTypeOK, HmSerializing
<1>9. CASE h.name = "host"
    <2>0. SerializeHost
        BY <1>4, <1>9
    <2>1. CASE hmHosted
        BY <2>0, <2>1, <1>7, Zenon DEF SerializeHost
    <2>2. CASE ~hmHosted
        <3>1. /\ hmPc' = "serialize" /\ hmHosted' = TRUE /\ hmLength' = hmLength
              /\ hmOut' = Append(hmOut, HmHostHeader)
            BY <2>0, <2>2, <1>1, Zenon DEF SerializeHost
        <3>2. /\ HmHostHeader \in HmField /\ HmHostHeader.name = "host" /\ HmHostHeader.value = hmHost
              /\ ~HmIsChunked(HmHostHeader) /\ ~HmIsSized(HmHostHeader)
            BY <1>1, HostHeader, Zenon
        <3>3. HmMeans(hmOut', Len(hmOut'), hmLength', HmUnspecified) /\ hmOut' \in Seq(HmField)
            BY <1>1, <1>2, <3>1, <3>2, WrittenMeans, Written, Zenon DEF HmSerializing
        <3>4. HmNames(hmOut, "host") = {}
            BY <1>1, <2>2, Zenon DEF HmSerializing, HmHostWritten
        <3>5. HmOneHost(hmOut', hmHost)
            BY <1>2, <3>1, <3>2, <3>4, HostAdded, Zenon
        <3>6. HmHostWritten'
            BY <1>1, <3>1, <3>5, Zenon DEF HmHostWritten
        <3>7. ~HmIsChunked(h) /\ ~HmIsSized(h)
            BY <1>9 DEF HmIsChunked, HmIsSized
        <3> QED BY <3>1, <3>3, <3>6, <3>7, <1>1, <1>6, Zenon DEF HmTypeOK
    <2> QED BY <2>1, <2>2, Zenon
<1>10. CASE h.name \notin {"proxy-authorization", "proxy-connection"} /\ h.name # "host"
    <2>0. SerializeOther(h)
        BY <1>4, <1>10, Zenon
    <2>1. CASE h.name = "content-length" /\ hmLength >= 0
        BY <2>0, <2>1, <1>7, Zenon DEF SerializeOther
    <2>2. CASE ~(h.name = "content-length" /\ hmLength >= 0)
        <3>1. /\ hmPc' = "serialize" /\ hmHosted' = hmHosted
              /\ hmLength' = RequestLength(hmLength, h) /\ hmOut' = Append(hmOut, h)
            BY <2>0, <2>2, <1>1, Zenon DEF SerializeOther
        <3>2. hmLength \in Nat \union {HmChunked, HmUnspecified} /\ hmHosted \in BOOLEAN
            BY <1>1, Zenon DEF HmTypeOK
        <3>3. HmMeans(hmOut, Len(hmOut), hmLength, HmUnspecified)
            BY <1>1, Zenon DEF HmSerializing
        <3>4. /\ HmMeans(hmOut', Len(hmOut'), hmLength', HmUnspecified)
              /\ hmLength' \in Nat \union {HmChunked, HmUnspecified}
              /\ hmLength # HmUnspecified \/ HmIsChunked(h) \/ HmIsSized(h) => hmLength' # HmUnspecified
            BY <1>2, <1>3, <2>2, <3>1, <3>2, <3>3, LengthWritten, Zenon
        <3>5. hmOut' \in Seq(HmField)
            BY <1>2, <1>3, <3>1, Written, Zenon
        <3>6. HmHostWritten'
            <4>1. CASE hmHosted
                <5>1. HmOneHost(hmOut, hmHost)
                    BY <4>1, <1>1, Zenon DEF HmSerializing, HmHostWritten
                <5>2. HmOneHost(hmOut', hmHost)
                    BY <5>1, <1>2, <1>3, <1>10, <3>1, HostStays, Zenon
                <5> QED BY <5>2, <4>1, <1>1, <3>1, Zenon DEF HmHostWritten
            <4>2. CASE ~hmHosted
                <5>1. HmNames(hmOut, "host") = {}
                    BY <4>2, <1>1, Zenon DEF HmSerializing, HmHostWritten
                <5>2. HmNames(hmOut', "host") = HmNames(hmOut, "host")
                    BY <1>2, <1>3, <1>10, <3>1, WrittenNames, Zenon
                <5> QED BY <5>1, <5>2, <4>2, <1>1, <3>1, Zenon DEF HmHostWritten
            <4> QED BY <4>1, <4>2, Zenon
        <3> QED BY <3>1, <3>2, <3>4, <3>5, <3>6, <1>6, Zenon
    <2> QED BY <2>1, <2>2, Zenon
<1> QED BY <1>8, <1>9, <1>10, Zenon

\* The request is sent: the body length is settled.
LEMMA SentKeeps ==
    ASSUME HmInv, SerializeRequest
    PROVE  HmInv'
<1>1. /\ HmTypeOK /\ HmSerializing /\ hmPc' = "sent" /\ hmPos' = hmPos
      /\ hmReq' = hmReq /\ hmRes' = hmRes /\ hmHost' = hmHost /\ hmHeaders' = hmHeaders /\ hmDrop' = hmDrop
      /\ hmHosted' = hmHosted /\ hmPos > Len(hmHeaders)
      /\ hmOut' = IF hmHosted THEN hmOut ELSE Append(hmOut, HmHostHeader)
      /\ hmLength' = IF hmReq.method = "HEAD" THEN 0
                     ELSE IF hmLength # HmUnspecified THEN hmLength
                     ELSE IF hmReq.version = "2" THEN HmChunked ELSE 0
    BY Zenon DEF HmInv, SerializeRequest
<1>2. /\ hmOut \in Seq(HmField) /\ hmLength \in Nat \union {HmChunked, HmUnspecified}
      /\ HmMeans(hmOut, Len(hmOut), hmLength, HmUnspecified) /\ 0 \in Nat
    BY <1>1 DEF HmTypeOK, HmSerializing
<1>3. hmReq.version \in {"1.1", "2"} /\ hmReq.headers \in Seq(HmHeader) /\ Len(hmHeaders) \in Nat /\ hmPos \in Nat
    BY <1>1 DEF HmTypeOK, HmExchange
<1>4. /\ HmHostHeader \in HmField /\ HmHostHeader.name = "host" /\ HmHostHeader.value = hmHost
      /\ ~HmIsChunked(HmHostHeader) /\ ~HmIsSized(HmHostHeader)
    BY <1>1, HostHeader, Zenon
<1>5. /\ hmOut' \in Seq(HmField) /\ HmOneHost(hmOut', hmHost)
      /\ HmMeans(hmOut', Len(hmOut'), hmLength, HmUnspecified)
    <2>1. CASE hmHosted
        BY <2>1, <1>1, <1>2, Zenon DEF HmSerializing, HmHostWritten
    <2>2. CASE ~hmHosted
        <3>1. HmNames(hmOut, "host") = {} /\ hmOut' = Append(hmOut, HmHostHeader)
            BY <2>2, <1>1, Zenon DEF HmSerializing, HmHostWritten
        <3>2. HmOneHost(Append(hmOut, HmHostHeader), HmHostHeader.value)
            BY <3>1, <1>2, <1>4, HostAdded, Zenon
        <3>3. HmMeans(Append(hmOut, HmHostHeader), Len(Append(hmOut, HmHostHeader)), hmLength, HmUnspecified)
            BY <1>2, <1>4, WrittenMeans, Zenon
        <3>4. Append(hmOut, HmHostHeader) \in Seq(HmField)
            BY <1>2, <1>4, Written, Zenon
        <3> QED BY <3>1, <3>2, <3>3, <3>4, <1>4, Zenon
    <2> QED BY <2>1, <2>2, Zenon
<1>6. hmLength' \in Nat \union {HmChunked, HmUnspecified}
    BY <1>1, <1>2, Zenon
<1>7. HmTypeOK'
    BY <1>1, <1>5, <1>6, Zenon DEF HmTypeOK, HmExchange
\* A declared length was seen.
<1>8. ASSUME HmDeclares(hmReq.headers) PROVE hmLength # HmUnspecified
    <2>1. PICK i \in 1 .. Len(hmReq.headers) : HmIsChunked(hmReq.headers[i]) \/ HmIsSized(hmReq.headers[i])
        BY <1>8, Zenon DEF HmDeclares
    <2>2. hmReq.headers[i].name # "host"
        BY <2>1 DEF HmIsChunked, HmIsSized
    <2>3. PICK j \in 1 .. Len(hmHeaders) : hmHeaders[j] = hmReq.headers[i]
        BY <2>2, <1>1, Zenon DEF HmSerializing, HmKept
    <2>4. j \in 1 .. (hmPos - 1)
        BY <1>1, <1>3
    <2> QED BY <2>1, <2>3, <2>4, <1>1, Zenon DEF HmSerializing
<1>9. ASSUME hmReq.method # "HEAD", hmReq.version = "2" => HmDeclares(hmReq.headers)
      PROVE  HmMeans(hmOut', Len(hmOut'), hmLength', 0)
    <2>1. CASE hmLength # HmUnspecified
        <3>1. hmLength' = hmLength
            BY <1>1, <1>9, <2>1, Zenon
        <3> QED BY <3>1, <2>1, <1>5, Zenon DEF HmMeans
    <2>2. CASE hmLength = HmUnspecified
        <3>1. hmLength' = 0
            BY <1>1, <1>8, <1>9, <2>2, Zenon
        <3>2. HmUnspecified \notin Nat /\ HmUnspecified # HmChunked
            BY DEF HmUnspecified, HmChunked
        <3>3. \A i \in 1 .. Len(hmOut') : hmOut'[i].value \in Nat
            BY <1>5, FieldOf, Zenon
        <3> QED BY <3>1, <3>2, <3>3, <2>2, <1>5, Zenon DEF HmMeans
    <2> QED BY <2>1, <2>2, Zenon
<1>10. hmPc' \notin {"decode", "convert", "serialize", "proxied", "answered"}
    BY <1>1
<1>11. HmHeadsAgree'
    BY <1>1, <1>5, <1>9, <1>10, Zenon DEF HmHeadsAgree, HmRequestAgrees, HmOneHost
<1> QED BY <1>7, <1>10, <1>11, Zenon DEF HmInv

\* The response's head is read.
LEMMA AnsweredKeeps ==
    ASSUME HmInv, HmAnswered
    PROVE  HmInv'
<1>1. /\ HmTypeOK /\ hmPc' = "convert" /\ hmPos' = 1
      /\ hmReq' = hmReq /\ hmRes' = hmRes /\ hmHost' = hmHost /\ hmHeaders' = hmHeaders
      /\ hmHosted' = hmHosted /\ hmLength' = HmUnspecified /\ hmOut' = <<>>
      /\ hmDrop' = {"proxy-connection", "keep-alive", "upgrade"}
    BY Zenon DEF HmInv, HmAnswered
<1>2. hmDrop' \subseteq HmName
    BY <1>1, HeadsAssumption, Zenon
<1>3. hmOut' \in Seq(HmField) /\ 1 .. Len(hmOut') = {} /\ 1 .. (1 - 1) = {} /\ 1 \in Nat \ {0}
    BY <1>1
<1>4. HmTypeOK'
    BY <1>1, <1>2, <1>3, Zenon DEF HmTypeOK, HmExchange
<1>5. HmMeans(hmRes.headers, 1 - 1, HmUnspecified, HmUnspecified)
    BY <1>3, Zenon DEF HmMeans
<1>6. hmDrop' \intersect {"content-length", "transfer-encoding"} = {} /\ "keep-alive" \in hmDrop'
    BY <1>1
<1>7. 1 <= Len(hmRes.headers) + 1
    BY <1>1, HeadTypes
<1>8. HmConverting'
    BY <1>1, <1>3, <1>5, <1>6, <1>7, Zenon DEF HmConverting
<1>9. hmPc' \notin {"decode", "serialize", "sent", "proxied", "answered"}
    BY <1>1
<1> QED BY <1>4, <1>8, <1>9, Zenon DEF HmInv, HmHeadsAgree

\* convert_response visits a header.
LEMMA ConvertKeeps ==
    ASSUME HmInv, ConvertHeader
    PROVE  HmInv'
<1> DEFINE h == hmRes.headers[hmPos]
           n == hmPos - 1
<1>1. /\ HmTypeOK /\ HmConverting /\ hmPc' = "convert" /\ hmPos' = hmPos + 1
      /\ hmReq' = hmReq /\ hmRes' = hmRes /\ hmHost' = hmHost /\ hmHeaders' = hmHeaders
      /\ hmHosted' = hmHosted
    BY Zenon DEF HmInv, ConvertHeader
<1>2. hmPos \in 1 .. Len(hmRes.headers) /\ hmRes.headers \in Seq(HmHeader)
    BY <1>1, HeadTypes DEF ConvertHeader, HmTypeOK
<1>3. hmRes.headers \in Seq(HmField) /\ h \in HmField
    BY <1>2, HeadersAreFields
<1>n. /\ n \in Nat /\ n + 1 = hmPos /\ hmPos' - 1 = hmPos /\ hmPos <= Len(hmRes.headers)
      /\ hmPos' <= Len(hmRes.headers) + 1 /\ hmPos' \in Nat \ {0}
    BY <1>1, <1>2
<1>4. h.value \in Nat /\ h.names \subseteq HmName
    BY <1>3 DEF HmField
<1>5. IF h.name \in hmDrop THEN UNCHANGED <<hmLength, hmDrop, hmOut>>
      ELSE IF h.name = "connection"
      THEN hmDrop' = hmDrop \union (h.names \ {"close"}) /\ UNCHANGED <<hmLength, hmOut>>
      ELSE IF h.name = "transfer-encoding" /\ hmReq.version = "2"
      THEN /\ hmLength' = IF h.value = 1 THEN HmChunked ELSE hmLength
           /\ hmDrop' = hmDrop \union {"content-length", "transfer-encoding"}
           /\ UNCHANGED hmOut
      ELSE /\ hmLength' = IF hmLength = HmUnspecified /\ h.name = "content-length"
                          THEN h.value ELSE hmLength
           /\ hmOut' = Append(hmOut, h) /\ UNCHANGED hmDrop
    BY Zenon DEF ConvertHeader
<1>6. HmPlainHead => /\ h.name = "transfer-encoding" => h.value = 1 /\ hmReq.version = "2"
                     /\ h.names \intersect {"content-length", "transfer-encoding"} = {}
    BY <1>2, Zenon DEF HmPlainHead
<1>7. /\ hmOut \in Seq(HmField) /\ hmLength \in Nat \union {HmChunked, HmUnspecified}
      /\ hmDrop \subseteq HmName /\ "keep-alive" \in hmDrop
    BY <1>1, Zenon DEF HmTypeOK, HmConverting
<1>8. HmPlainHead =>
         /\ HmMeans(hmRes.headers, n, hmLength, HmUnspecified)
         /\ (hmDrop \intersect {"content-length", "transfer-encoding"} # {} => hmLength = HmChunked)
    BY <1>1, Zenon DEF HmConverting
<1>h. hmRes.headers[n + 1] = h
    BY <1>n
<1> HIDE DEF h, n
\* What is to be shown of the step.
<1>9. ASSUME hmOut' \in Seq(HmField), hmLength' \in Nat \union {HmChunked, HmUnspecified},
             hmDrop' \subseteq HmName, "keep-alive" \in hmDrop',
             hmReq.version = "2" => \A i \in 1 .. Len(hmOut') :
                hmOut'[i].name \notin {"connection", "keep-alive", "transfer-encoding"},
             HmPlainHead =>
                /\ HmMeans(hmRes.headers, n + 1, hmLength', HmUnspecified)
                /\ (hmDrop' \intersect {"content-length", "transfer-encoding"} # {} => hmLength' = HmChunked)
      PROVE  HmInv'
    <2>1. HmTypeOK'
        BY <1>1, <1>n, <1>9, Zenon DEF HmTypeOK, HmExchange
    <2>2. HmPlainHead' => HmPlainHead
        BY <1>1, Zenon DEF HmPlainHead
    <2>3. HmConverting'
        BY <1>1, <1>n, <1>9, <2>2, Zenon DEF HmConverting
    <2>4. hmPc' \notin {"decode", "serialize", "sent", "proxied", "answered"}
        BY <1>1
    <2> QED BY <2>1, <2>3, <2>4, Zenon DEF HmInv, HmHeadsAgree
<1>10. hmReq.version = "2" => \A i \in 1 .. Len(hmOut) :
          hmOut[i].name \notin {"connection", "keep-alive", "transfer-encoding"}
    BY <1>1, Zenon DEF HmConverting
<1>11. ASSUME HmPlainHead, ~HmIsChunked(h), ~HmIsSized(h)
       PROVE  HmMeans(hmRes.headers, n + 1, hmLength, HmUnspecified)
    BY <1>8, <1>11, <1>h, <1>n, MeansNeutral, Zenon
<1>12. CASE h.name \in hmDrop
    <2>1. hmLength' = hmLength /\ hmDrop' = hmDrop /\ hmOut' = hmOut
        BY <1>5, <1>12, Zenon
    <2>2. ASSUME HmPlainHead PROVE HmMeans(hmRes.headers, n + 1, hmLength, HmUnspecified)
        <3>1. CASE h.name \in {"content-length", "transfer-encoding"}
            <4>1. hmLength = HmChunked
                BY <1>8, <1>12, <2>2, <3>1, Zenon
            <4> QED BY <4>1, <1>3, <1>8, <1>n, <2>2, MeansStaysChunked, Zenon
        <3>2. CASE h.name \notin {"content-length", "transfer-encoding"}
            <4>1. ~HmIsChunked(h) /\ ~HmIsSized(h)
                BY <3>2, Zenon DEF HmIsChunked, HmIsSized
            <4> QED BY <4>1, <2>2, <1>11, Zenon
        <3> QED BY <3>1, <3>2, Zenon
    <2> QED BY <2>1, <2>2, <1>7, <1>8, <1>9, <1>10, Zenon
<1>13. CASE h.name \notin hmDrop /\ h.name = "connection"
    <2>1. hmLength' = hmLength /\ hmDrop' = hmDrop \union (h.names \ {"close"}) /\ hmOut' = hmOut
        BY <1>5, <1>13, Zenon
    <2>2. ~HmIsChunked(h) /\ ~HmIsSized(h)
        BY <1>13 DEF HmIsChunked, HmIsSized
    <2>3. hmDrop' \subseteq HmName /\ "keep-alive" \in hmDrop'
        BY <2>1, <1>4, <1>7, Zenon
    <2>4. HmPlainHead =>
             (hmDrop' \intersect {"content-length", "transfer-encoding"} # {} => hmLength' = HmChunked)
        BY <2>1, <1>6, <1>8, Zenon
    <2> QED BY <2>1, <2>2, <2>3, <2>4, <1>7, <1>9, <1>10, <1>11, Zenon
<1>14. CASE h.name \notin hmDrop /\ h.name = "transfer-encoding" /\ hmReq.version = "2"
    <2>0. h.name # "connection"
        BY <1>14
    <2>1. /\ hmLength' = IF h.value = 1 THEN HmChunked ELSE hmLength
          /\ hmDrop' = hmDrop \union {"content-length", "transfer-encoding"} /\ hmOut' = hmOut
        BY <2>0, <1>5, <1>14, Zenon
    <2>2. hmDrop' \subseteq HmName /\ "keep-alive" \in hmDrop'
        BY <2>1, <1>7, HeadsAssumption, Zenon
    <2>3. hmLength' \in Nat \union {HmChunked, HmUnspecified}
        BY <2>1, <1>7, Zenon
    <2>4. ASSUME HmPlainHead PROVE hmLength' = HmChunked /\ HmIsChunked(h)
        BY <2>1, <2>4, <1>6, <1>14, Zenon DEF HmIsChunked
    <2>5. ASSUME HmPlainHead PROVE HmMeans(hmRes.headers, n + 1, HmChunked, HmUnspecified)
        BY <2>4, <2>5, <1>h, <1>n, MeansChunked, Zenon
    <2> QED BY <2>1, <2>2, <2>3, <2>4, <2>5, <1>7, <1>9, <1>10, Zenon
<1>15. CASE /\ h.name \notin hmDrop /\ h.name # "connection"
            /\ ~(h.name = "transfer-encoding" /\ hmReq.version = "2")
    <2>1. /\ hmLength' = IF hmLength = HmUnspecified /\ h.name = "content-length" THEN h.value ELSE hmLength
          /\ hmOut' = Append(hmOut, h) /\ hmDrop' = hmDrop
        BY <1>5, <1>15, Zenon
    <2>2. /\ hmOut' \in Seq(HmField) /\ Len(hmOut') = Len(hmOut) + 1
          /\ \A i \in 1 .. Len(hmOut) : hmOut'[i] = hmOut[i]
          /\ hmOut'[Len(hmOut) + 1] = h
        BY <2>1, <1>3, <1>7, Written, Zenon
    <2>3. \A i \in 1 .. Len(hmOut') : i \in 1 .. Len(hmOut) \/ i = Len(hmOut) + 1
        BY <2>2, <1>7
    <2>4. hmReq.version = "2" => h.name \notin {"connection", "keep-alive", "transfer-encoding"}
        BY <1>7, <1>15, Zenon
    <2>5. hmReq.version = "2" => \A i \in 1 .. Len(hmOut') :
             hmOut'[i].name \notin {"connection", "keep-alive", "transfer-encoding"}
        BY <2>2, <2>3, <2>4, <1>10, Zenon
    <2>6. hmLength' \in Nat \union {HmChunked, HmUnspecified}
        BY <2>1, <1>4, <1>7, Zenon
    <2>7. ASSUME HmPlainHead PROVE ~HmIsChunked(h)
        BY <2>7, <1>6, <1>15, Zenon DEF HmIsChunked
    <2>8. ASSUME HmPlainHead PROVE HmMeans(hmRes.headers, n + 1, hmLength', HmUnspecified)
        <3>1. CASE HmIsSized(h)
            <4>1. hmLength' = IF hmLength = HmUnspecified THEN hmRes.headers[n + 1].value ELSE hmLength
                BY <3>1, <2>1, <1>h, Zenon DEF HmIsSized
            <4>2. /\ HmIsSized(hmRes.headers[n + 1]) /\ n + 1 <= Len(hmRes.headers)
                  /\ HmMeans(hmRes.headers, n, hmLength, HmUnspecified)
                BY <3>1, <2>8, <1>h, <1>n, <1>8, Zenon
            <4> QED BY <4>1, <4>2, <1>3, <1>n, MeansSized, Zenon
        <3>2. CASE ~HmIsSized(h)
            <4>1. hmLength' = hmLength
                BY <3>2, <2>1, Zenon DEF HmIsSized
            <4> QED BY <4>1, <3>2, <2>7, <2>8, <1>11, Zenon
        <3> QED BY <3>1, <3>2, Zenon
    <2>9. HmPlainHead =>
             (hmDrop' \intersect {"content-length", "transfer-encoding"} # {} => hmLength' = HmChunked)
        <3>1. HmChunked # HmUnspecified
            BY DEF HmChunked, HmUnspecified
        <3> QED BY <3>1, <2>1, <1>8, Zenon
    <2> QED BY <2>1, <2>2, <2>5, <2>6, <2>8, <2>9, <1>7, <1>9, Zenon
<1> QED BY <1>12, <1>13, <1>14, <1>15, Zenon

\* The response is handed on.
LEMMA ConvertedKeeps ==
    ASSUME HmInv, ConvertResponse
    PROVE  HmInv'
<1>1. /\ HmTypeOK /\ HmConverting /\ hmPc' = "answered" /\ hmPos' = hmPos /\ hmPos > Len(hmRes.headers)
      /\ hmReq' = hmReq /\ hmRes' = hmRes /\ hmHost' = hmHost /\ hmHeaders' = hmHeaders
      /\ hmHosted' = hmHosted /\ hmOut' = hmOut /\ hmDrop' = hmDrop
      /\ hmLength' = IF HmNoBody THEN 0 ELSE hmLength
    BY Zenon DEF HmInv, ConvertResponse
<1>2. hmPos - 1 = Len(hmRes.headers) /\ 0 \in Nat
    <2>1. Len(hmRes.headers) \in Nat /\ hmPos \in Nat /\ hmPos <= Len(hmRes.headers) + 1
        BY <1>1, HeadTypes DEF HmTypeOK, HmConverting
    <2> QED BY <1>1, <2>1
<1>3. HmTypeOK'
    BY <1>1, <1>2, Zenon DEF HmTypeOK, HmExchange
<1>4. ASSUME ~HmNoBody', HmPlainHead'
      PROVE  HmMeans(hmRes.headers, Len(hmRes.headers), hmLength', HmUnspecified)
    <2>1. ~HmNoBody /\ HmPlainHead
        BY <1>1, <1>4, ZenonT(30) DEF HmNoBody, HmPlainHead
    <2> QED BY <2>1, <1>1, <1>2, Zenon DEF HmConverting
<1>5. hmPc' \notin {"decode", "serialize", "sent", "proxied", "convert"}
    BY <1>1
<1>6. HmHeadsAgree'
    BY <1>1, <1>4, <1>5, Zenon DEF HmHeadsAgree, HmResponseAgrees, HmConverting
<1> QED BY <1>3, <1>5, <1>6, Zenon DEF HmInv

\* The heads of every exchange agree: whatever headers a message has, how many
\* and in which order, serialize_request, encode_request and convert_response
\* write what the sender meant.
THEOREM HeadsAgree == HmSpec => []HmHeadsAgree
<1>1. HmInit => HmInv
    BY HmInitInv
<1>2. HmInv /\ [HmNext]_hmVars => HmInv'
    <2>1. ASSUME HmInv, UNCHANGED hmVars PROVE HmInv'
        <3>1. /\ hmReq' = hmReq /\ hmRes' = hmRes /\ hmPc' = hmPc /\ hmPos' = hmPos /\ hmHost' = hmHost
              /\ hmHeaders' = hmHeaders /\ hmHosted' = hmHosted /\ hmLength' = hmLength
              /\ hmDrop' = hmDrop /\ hmOut' = hmOut
            BY <2>1, Zenon DEF hmVars
        <3>2. HmTypeOK'
            BY <2>1, <3>1, Zenon DEF HmInv, HmTypeOK, HmExchange
        <3>3. HmDecoding' = HmDecoding
            BY <3>1, Zenon DEF HmDecoding, HmKept, HmNamedOnce, HmHostKnown
        <3>4. HmSerializing' = HmSerializing
            BY <3>1, Zenon DEF HmSerializing, HmKept, HmHostWritten
        <3>5. HmConverting' = HmConverting
            BY <3>1, Zenon DEF HmConverting, HmPlainHead
        <3>6. HmHeadsAgree' = HmHeadsAgree
            <4>1. HmRequestAgrees' = HmRequestAgrees
                BY <3>1, Zenon DEF HmRequestAgrees
            <4>2. HmResponseAgrees' = HmResponseAgrees
                <5>1. HmNoBody' = HmNoBody
                    BY <3>1, Zenon DEF HmNoBody
                <5>2. HmPlainHead' = HmPlainHead
                    BY <3>1, Zenon DEF HmPlainHead
                <5> QED BY <3>1, <5>1, <5>2, Zenon DEF HmResponseAgrees
            <4>3. HmProxiedAgrees' = HmProxiedAgrees
                BY <3>1, Zenon DEF HmProxiedAgrees, HmNamedOnce
            <4> QED BY <3>1, <4>1, <4>2, <4>3, Zenon DEF HmHeadsAgree
        <3> QED BY <2>1, <3>1, <3>2, <3>3, <3>4, <3>5, <3>6, Zenon DEF HmInv
    <2> QED BY <2>1, DecodeKeeps, ForwardKeeps, EncodeKeeps, SerializeKeeps, SentKeeps, AnsweredKeeps,
               ConvertKeeps, ConvertedKeeps, Zenon DEF HmNext
<1>3. HmInv => HmHeadsAgree
    BY Zenon DEF HmInv
<1> QED BY <1>1, <1>2, <1>3, PTL DEF HmSpec
=============================================================================
