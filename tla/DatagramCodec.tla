---------------------------- MODULE DatagramCodec ----------------------------
(***************************************************************************)
(* The decoders of a client's datagram streams: lib/src/http_udp_codec.rs, *)
(* lib/src/http_icmp_codec.rs, and DatagramDecoder::read of                *)
(* lib/src/http_downstream.rs that feeds them.  The bytes of the datagrams *)
(* arrive cut into chunks at any place.  Of the fixed header of a UDP      *)
(* frame only its last byte, the length of the application name, is        *)
(* interpreted; the addresses in it are the other bytes.                   *)
(***************************************************************************)
EXTENDS Integers, Sequences

CONSTANTS
    DcByte,         \* the values of a byte
    DcText,         \* those that are UTF-8 by themselves
    DcLength,       \* UDPPKT_LENGTH_SIZE
    DcHeader,       \* UDPPKT_IN_FIXED_HEADER_NO_LENGTH_SIZE
    DcU32,          \* get_u32 of a length field
    DcMaxIn,        \* MAX_UDP_IN_PAYLOAD_SIZE
    DcRequest,      \* ICMPPKT_REQ_SIZE
    DcStreams       \* the streams explored: each as DcStream says

\* A UDP frame is a length field and as many bytes as it says; an ICMP request
\* is DcRequest bytes.
DcFrame(kind, f) ==
    /\ f.body \in Seq(DcByte)
    /\ IF kind = "udp" THEN f.length \in [1..DcLength -> DcByte] /\ Len(f.body) = DcU32[f.length]
       ELSE f.length = <<>> /\ Len(f.body) = DcRequest

\* What a client sends: frames, one behind the other.  start: what stands
\* before each of them, and before the end.
DcStream(s) ==
    /\ s.kind \in {"udp", "icmp"} /\ s.bytes \in Seq(DcByte) /\ s.count \in Nat
    /\ s.start \in [1..(s.count + 1) -> 0..Len(s.bytes)]
    /\ s.start[1] = 0 /\ s.start[s.count + 1] = Len(s.bytes)
    /\ \A k \in 1..s.count :
          LET f == s.frames[k]
              start == s.start[k]
              body == start + Len(f.length)
          IN /\ DcFrame(s.kind, f) /\ s.start[k + 1] = body + Len(f.body)
             /\ \A i \in 1..Len(f.length) : s.bytes[start + i] = f.length[i]
             /\ \A i \in 1..Len(f.body) : s.bytes[body + i] = f.body[i]

ASSUME DatagramAssumption ==
    /\ DcByte \subseteq Nat /\ DcLength \in Nat \ {0} /\ DcHeader \in Nat \ {0}
    /\ DcU32 \in [[1..DcLength -> DcByte] -> Nat]
    /\ DcMaxIn \in Nat /\ DcRequest \in Nat \ {0}
    /\ \A s \in DcStreams : DcStream(s)

VARIABLES
    dcStream,       \* the stream
    dcWire,         \* its bytes that have not arrived yet
    dcData,         \* the chunk being decoded; the tail kept in pending_bytes
    dcState,        \* RecvState, with its length
    dcTotal,        \* total_length
    dcBuffer,       \* buffer
    dcMeta,         \* source, destination and app_name
    dcOut           \* the datagrams returned

dcDecoder == <<dcState, dcTotal, dcBuffer, dcMeta>>
dcVars == <<dcStream, dcWire, dcData, dcDecoder, dcOut>>

\* The fields of a UDP frame's body.
DcNameLength(header) == header[DcHeader]
DcNameOf(body) == SubSeq(body, DcHeader + 1, DcHeader + DcNameLength(body))
IsUtf8(name) == \A i \in 1..Len(name) : name[i] \in DcText

\* The frames a decoder should return: long enough for their header and name,
\* not too long, and with a name that is UTF-8.
DcAccepted(kind, f) ==
    kind = "icmp" \/ /\ Len(f.body) >= DcHeader
                     /\ Len(f.body) >= DcHeader + DcNameLength(f.body)
                     /\ Len(f.body) + DcNameLength(f.body) <= DcMaxIn
                     /\ IsUtf8(DcNameOf(f.body))

\* A datagram: where it comes from and goes to, the application, the payload;
\* an ICMP request is a header.
DcDatagrams == [header : Seq(DcByte), name : Seq(DcByte), payload : Seq(DcByte)]
DcDatagram(header, name, payload) == [header |-> header, name |-> name, payload |-> payload]
DcMeant(kind, f) ==
    IF kind = "icmp" THEN DcDatagram(f.body, <<>>, <<>>)
    ELSE DcDatagram(SubSeq(f.body, 1, DcHeader), DcNameOf(f.body),
                    SubSeq(f.body, DcHeader + DcNameLength(f.body) + 1, Len(f.body)))

At(at, left) == [at |-> at, left |-> left]

\* The type invariant.
DcTypeOK ==
    /\ dcStream \in DcStreams
    /\ dcWire \in Seq(DcByte) /\ dcData \in Seq(DcByte) /\ dcBuffer \in Seq(DcByte)
    /\ dcState \in [at : {"length", "header", "name", "payload", "dropping", "request"}, left : Nat]
    /\ dcTotal \in Nat /\ dcMeta \in [header : Seq(DcByte), name : Seq(DcByte)]
    /\ dcOut \in Seq(DcDatagrams)

DcInit ==
    /\ dcStream \in DcStreams /\ dcWire = dcStream.bytes
    /\ dcData = <<>> /\ dcTotal = 0 /\ dcBuffer = <<>> /\ dcOut = <<>>
    /\ dcMeta = [header |-> <<>>, name |-> <<>>]
    /\ dcState = At(IF dcStream.kind = "udp" THEN "length" ELSE "request", 0)

-----------------------------------------------------------------------------
\* DatagramDecoder::read takes a chunk when nothing is pending.
DcChunk ==
    /\ dcData = <<>> /\ dcWire # <<>>
    /\ \E n \in 1..Len(dcWire) :
          /\ dcData' = SubSeq(dcWire, 1, n)
          /\ dcWire' = SubSeq(dcWire, n + 1, Len(dcWire))
    /\ UNCHANGED <<dcStream, dcDecoder, dcOut>>

DcLeast(a, b) == IF a <= b THEN a ELSE b

\* buffered_read: what the buffer holds of the field of `cap` bytes when the
\* chunk has been read, and the buffer given up once it has all of it.
DcDrain(cap) == DcLeast(Len(dcData), cap - Len(dcBuffer))
DcRead(cap) == dcBuffer \o SubSeq(dcData, 1, DcDrain(cap))
BufferedRead(cap) ==
    /\ dcData' = SubSeq(dcData, DcDrain(cap) + 1, Len(dcData))
    /\ dcBuffer' = IF Len(DcRead(cap)) < cap THEN DcRead(cap) ELSE <<>>

ProcessClientLength ==
    /\ dcState.at = "length" /\ dcData # <<>>
    /\ BufferedRead(DcLength)
    /\ LET field == DcRead(DcLength) IN
       IF Len(field) < DcLength THEN UNCHANGED <<dcState, dcTotal>>
       ELSE /\ dcTotal' = DcU32[field]
            /\ dcState' = IF dcTotal' >= DcHeader THEN At("header", 0) ELSE At("dropping", dcTotal')
    /\ UNCHANGED <<dcStream, dcWire, dcMeta, dcOut>>

ProcessClientFixedHeader ==
    /\ dcState.at = "header" /\ dcData # <<>>
    /\ BufferedRead(DcHeader)
    /\ LET field == DcRead(DcHeader)
           name == DcNameLength(field)
       IN IF Len(field) < DcHeader THEN UNCHANGED <<dcState, dcMeta>>
          ELSE /\ dcMeta' = [dcMeta EXCEPT !.header = field]
               /\ dcState' = IF dcTotal + name > DcMaxIn \/ dcTotal < DcHeader + name
                             THEN At("dropping", dcTotal - DcHeader) ELSE At("name", name)
    /\ UNCHANGED <<dcStream, dcWire, dcTotal, dcOut>>

ProcessClientAppName ==
    /\ dcState.at = "name" /\ dcData # <<>>
    /\ BufferedRead(dcState.left)
    /\ LET field == DcRead(dcState.left)
           rest == dcTotal - DcHeader - dcState.left
       IN IF Len(field) < dcState.left THEN UNCHANGED <<dcState, dcMeta>>
          ELSE IF IsUtf8(field)
          THEN dcMeta' = [dcMeta EXCEPT !.name = field] /\ dcState' = At("payload", rest)
          ELSE dcState' = At("dropping", rest) /\ UNCHANGED dcMeta
    /\ UNCHANGED <<dcStream, dcWire, dcTotal, dcOut>>

\* Mutant: a payload that is all in the chunk is taken from it alone.
MutantProcessClientPayload ==
    /\ dcState.at = "payload" /\ dcData # <<>>
    /\ LET n == DcLeast(Len(dcData), dcState.left) IN
       /\ dcData' = SubSeq(dcData, n + 1, Len(dcData))
       /\ IF n < dcState.left
          THEN dcBuffer' = SubSeq(dcData, 1, n) /\ UNCHANGED <<dcState, dcMeta, dcOut>>
          ELSE /\ dcOut' = Append(dcOut, DcDatagram(dcMeta.header, dcMeta.name, SubSeq(dcData, 1, n)))
               /\ dcBuffer' = <<>> /\ dcMeta' = [dcMeta EXCEPT !.name = <<>>]
               /\ dcState' = At("length", 0)
    /\ UNCHANGED <<dcStream, dcWire, dcTotal>>

\* The payload is complete, in the chunk or in the buffer, or is waited for.
ProcessClientPayload ==
    /\ dcState.at = "payload" /\ dcData # <<>>
    /\ BufferedRead(dcState.left)
    /\ LET payload == DcRead(dcState.left) IN
       IF Len(payload) < dcState.left THEN UNCHANGED <<dcState, dcMeta, dcOut>>
       ELSE /\ dcOut' = Append(dcOut, DcDatagram(dcMeta.header, dcMeta.name, payload))
            /\ dcMeta' = [dcMeta EXCEPT !.name = <<>>]
            /\ dcState' = At("length", 0)
    /\ UNCHANGED <<dcStream, dcWire, dcTotal>>

\* The state Dropping: what is dropped goes back to the loop as its tail, and
\* what follows it in the chunk is lost.
DcDropping ==
    /\ dcState.at = "dropping" /\ dcData # <<>>
    /\ LET n == DcLeast(Len(dcData), dcState.left) IN
       /\ dcData' = SubSeq(dcData, 1, n)
       /\ dcState' = IF dcState.left <= n THEN At("length", 0) ELSE At("dropping", dcState.left - n)
    /\ UNCHANGED <<dcStream, dcWire, dcTotal, dcBuffer, dcMeta, dcOut>>

\* http_icmp_codec: on_message_chunk, with or without the buffer.
OnMessageChunk ==
    /\ dcState.at = "request" /\ dcData # <<>>
    /\ BufferedRead(DcRequest)
    /\ LET request == DcRead(DcRequest) IN
       dcOut' = IF Len(request) < DcRequest THEN dcOut
               ELSE Append(dcOut, DcDatagram(request, <<>>, <<>>))
    /\ UNCHANGED <<dcStream, dcWire, dcState, dcTotal, dcMeta>>

DcNext ==
    \/ DcChunk \/ ProcessClientLength \/ ProcessClientFixedHeader \/ ProcessClientAppName
    \/ ProcessClientPayload \/ DcDropping \/ OnMessageChunk
DcSpec == DcInit /\ [][DcNext]_dcVars

-----------------------------------------------------------------------------
(* Properties.                                                             *)

\* Wherever the stream is cut, the datagrams returned are those that were
\* sent, in order and intact, each with its own addresses: for frames that are
\* all accepted, and for ICMP.  Nothing is left behind: once every byte has
\* been taken all the datagrams are out, but for a last one without a payload,
\* which waits for more bytes.
\* And buffered_read is entered with room in the buffer, as it asserts.
DcCuttingIsHarmless ==
    /\ (\A k \in 1..dcStream.count : DcAccepted(dcStream.kind, dcStream.frames[k])) =>
          /\ Len(dcOut) <= dcStream.count
          /\ \A k \in 1..Len(dcOut) : dcOut[k] = DcMeant(dcStream.kind, dcStream.frames[k])
          /\ dcWire = <<>> /\ dcData = <<>> =>
                \/ Len(dcOut) = dcStream.count
                \/ dcState.at \in {"name", "payload"} /\ Len(dcOut) = dcStream.count - 1
    /\ dcState.at = "length" => Len(dcBuffer) < DcLength
    /\ dcState.at = "header" => Len(dcBuffer) < DcHeader
    /\ dcState.at \in {"name", "payload"} => Len(dcBuffer) < dcState.left \/ dcState.left = 0
    /\ dcState.at = "request" => Len(dcBuffer) < DcRequest

\* A frame that is dropped takes no other with it: the log says "dropping it"
\* and "dropping the rest of the packet".
DcDroppingIsLocal ==
    LET Accepted(f) == DcAccepted("udp", f)
        ok == SelectSeq(dcStream.frames, Accepted)
    IN dcStream.kind = "udp" =>
         Len(dcOut) <= Len(ok) /\ \A k \in 1..Len(dcOut) : dcOut[k] = DcMeant("udp", ok[k])
=============================================================================
