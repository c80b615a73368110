---------------------------- MODULE IcmpMessages ----------------------------
(***************************************************************************)
(* What the ICMP listener makes of one packet of its raw socket:           *)
(* icmp_forwarder.rs listen_socket, icmp_utils.rs deserialize and          *)
(* responded_echo_request, and net_utils.rs skip_ipv4_header,              *)
(* skip_ipv6_header and rfc1071_checksum, one step for each turn of their  *)
(* loops.  A packet is its version, type, code and length and, when it is  *)
(* an error message, the packet it quotes; bytes are counted, and only the *)
(* data of an echo is told apart.                                          *)
(***************************************************************************)
EXTENDS Integers, Sequences

CONSTANTS
  ImBase,           \* the number of values of a 16-bit word
  ImRequest,        \* the data of the echo request that was sent
  ImPackets,        \* the packets that arrive
  ImMessages        \* the messages that are sent, as 16-bit words

VARIABLES
  imPc,             \* what runs: the listener, one of the two loops, or nothing
  imIn,             \* the packet that arrives
  imOut,            \* what listen makes of it
  imLeft,           \* bytes left of the quoted packet
  imPos,            \* the extension header or the word the loop visits
  imWords,          \* the words of a message that is sent, its checksum 0
  imTotal,          \* sum, of the words visited
  imOnes,           \* the reference: their one's complement sum
  imSum             \* the checksum put into the message, -1 before

imVars == <<imPc, imIn, imOut, imLeft, imPos, imWords, imTotal, imOnes, imSum>>

ImNone == [kind |-> "none"]
ImError == [kind |-> "error"]
ImPanic == [kind |-> "panic"]

Icmp(v) == IF v = 4 THEN 1 ELSE 58
ImEchoType(v) == IF v = 4 THEN 8 ELSE 128
ImReplyType(v) == IF v = 4 THEN 0 ELSE 129
ImEcho == [id |-> "ours", data |-> ImRequest]
ImErrorTypes(v) == IF v = 4 THEN {3, 4, 5, 11, 12} ELSE {1, 2, 3, 4}

\* A packet as it arrives: its echo fields are those of the request, whether
\* they stand in a reply or in a quote.  Hop-by-hop, routing and destination
\* options headers have a length, a fragment header has none.
ImExtension == [kind : {"options", "fragment"}, length : Nat]
ImPacket ==
  [version : {4, 6}, type : Nat, code : Nat, len : Nat, echo : {ImEcho},
   quote : [words : Nat, extensions : Seq(ImExtension), proto : Nat, type : Nat]]

ImNoPacket ==
  [version |-> 4, type |-> 0, code |-> 0, len |-> 0, echo |-> ImEcho,
   quote |-> [words |-> 0, extensions |-> <<>>, proto |-> 0, type |-> 0]]

ASSUME IcmpMessageAssumption ==
  /\ ImPackets \subseteq ImPacket
  /\ ImBase \in Nat /\ ImBase > 1 /\ ImMessages \subseteq Seq(0 .. (ImBase - 1))

ImInit ==
  /\ imOut = ImNone /\ imLeft = 0 /\ imPos = 1 /\ imTotal = 0 /\ imOnes = 0 /\ imSum = -1
  /\ \/ imPc = "listen" /\ imIn \in ImPackets /\ imWords = <<>>
     \/ imPc = "sum" /\ imIn = ImNoPacket /\ imWords \in ImMessages

-----------------------------------------------------------------------------
\* skip_ipv4_header of n bytes that claim a header of 4 * words bytes: the
\* length of what follows, -1 when the packet is invalid.
SkipIpv4Header(n, words) ==
  IF n < 20 \/ 4 * words < 20 \/ 4 * words > n THEN -1 ELSE n - 4 * words

\* The lengths v4::Message::deserialize accepts.
V4LengthOK(type, n) ==
  CASE type \in 13 .. 16 -> n = 20
    [] type \in {0, 8} -> n >= 8
    [] type \in ImErrorTypes(4) -> n >= 8 + 20 + 8
    [] OTHER -> FALSE

\* The lengths v6::Message::deserialize accepts.
V6LengthOK(type, n) ==
  CASE type \in {128, 129} -> n >= 8
    [] type \in ImErrorTypes(6) -> n >= 8 + 40
    [] OTHER -> FALSE

\* deserialize_packet!: the length check of each type comes before its code.
ImLengthOK(v, type, n) == IF v = 4 THEN V4LengthOK(type, n) ELSE V6LengthOK(type, n)

\* The codes the v4 parsers accept, and those of v6.
V4CodeOK(type, code) ==
  (type = 3 => code \in 0 .. 5) /\ (type = 11 => code \in 0 .. 1)
V6CodeOK(type, code) ==
  (type = 1 => code \in 0 .. 6) /\ (type = 3 => code \in 0 .. 1)

\* What the parsers read behind type, code and checksum, before the data.
V4Fields(type) == IF type \in {13, 14} THEN 16 ELSE 4
V6Fields == 4

Deserialize(p) ==
  IF \/ p.len = 0 \/ ~ImLengthOK(p.version, p.type, p.len)
     \/ ~(IF p.version = 4 THEN V4CodeOK(p.type, p.code) ELSE V6CodeOK(p.type, p.code))
  THEN ImError
  ELSE [kind |-> "message",
        read |-> 4 + (IF p.version = 4 THEN V4Fields(p.type) ELSE V6Fields)]

ImPrefix(data, n) == IF n < Len(data) THEN SubSeq(data, 1, n) ELSE data

\* Mutant: the fields are counted without the code.
MutantParseEcho(echo, n) ==
  [kind |-> "echo", id |-> echo.id, data |-> ImPrefix(echo.data, n - 7)]

\* parse_echo of a packet with n bytes and an echo's fields.
ParseEcho(echo, n) ==
  [kind |-> "echo", id |-> echo.id, data |-> ImPrefix(echo.data, n - 8)]

-----------------------------------------------------------------------------
ImHeard(echo) ==
  /\ imOut' = [kind |-> "heard", echo |-> echo] /\ imPc' = "done"
  /\ UNCHANGED <<imLeft, imPos>>

\* responded_echo_request behind the IP header of the quoted packet.
ImMatch(p, left) ==
  IF \/ p.quote.proto # Icmp(p.version) \/ left = 0
     \/ p.quote.type # ImEchoType(p.version) \/ left < 8
  THEN ImNone ELSE ParseEcho(p.echo, left)

\* responded_echo_request up to skip_ipv6_header's loop.  The quoted packet has
\* p.len - 8 bytes.
RespondedEchoRequest(p) ==
  \/ p.type = ImReplyType(p.version) /\ ImHeard(ParseEcho(p.echo, p.len))
  \/ p.type \notin ImErrorTypes(p.version) \union {ImReplyType(p.version)} /\ ImHeard(ImNone)
  \/ /\ p.type \in ImErrorTypes(p.version) /\ p.version = 4
     /\ LET left == SkipIpv4Header(p.len - 8, p.quote.words) IN
        ImHeard(IF left = -1 THEN ImNone ELSE ImMatch(p, left))
  \/ /\ p.type \in ImErrorTypes(p.version) /\ p.version = 6
     /\ IF p.len - 8 < 40 THEN ImHeard(ImNone)
        ELSE /\ imPc' = "skip" /\ imLeft' = p.len - 8 - 40
             /\ UNCHANGED <<imOut, imPos>>

\* listen_v4 or listen_v6, and the first lines of listen.
ImListen ==
  /\ imPc = "listen"
  /\ IF Deserialize(imIn) = ImError
     THEN imOut' = ImError /\ imPc' = "done" /\ UNCHANGED <<imLeft, imPos>>
     ELSE RespondedEchoRequest(imIn)
  /\ UNCHANGED <<imIn, imWords, imTotal, imOnes, imSum>>

ImSkipping(n) == imLeft' = imLeft - n /\ imPos' = imPos + 1 /\ UNCHANGED <<imPc, imOut>>

\* skip_ipv6_header visits an extension header.  Bytes::advance panics when it
\* skips more than there is.
SkipIpv6Header ==
  /\ imPc = "skip" /\ imPos <= Len(imIn.quote.extensions)
  /\ LET h == imIn.quote.extensions[imPos] IN
     IF h.kind = "fragment" THEN (IF imLeft < 8 THEN ImHeard(ImNone) ELSE ImSkipping(8))
     ELSE IF imLeft < 2 THEN ImHeard(ImNone)
     ELSE IF imLeft - 2 < h.length THEN ImHeard(ImPanic) ELSE ImSkipping(2 + h.length)
  /\ UNCHANGED <<imIn, imWords, imTotal, imOnes, imSum>>

ImSkipped ==
  /\ imPc = "skip" /\ imPos > Len(imIn.quote.extensions)
  /\ ImHeard(ImMatch(imIn, imLeft))
  /\ UNCHANGED <<imIn, imWords, imTotal, imOnes, imSum>>

-----------------------------------------------------------------------------
\* One's complement addition, the reference: a carry is added back at once.
ImOnesPlus(a, b) == IF a + b < ImBase THEN a + b ELSE a + b - (ImBase - 1)

\* rfc1071_checksum visits a word.
ImAddWord ==
  /\ imPc = "sum" /\ imPos <= Len(imWords) /\ imPos' = imPos + 1
  /\ imTotal' = imTotal + imWords[imPos] /\ imOnes' = ImOnesPlus(imOnes, imWords[imPos])
  /\ UNCHANGED <<imPc, imIn, imOut, imLeft, imWords, imSum>>

\* Its result, from a sum in 32 bits to a checksum in 16.  An IP packet has
\* less than 2^15 words: the sum does not overflow.
Rfc1071Checksum(sum) == ImBase - 1 - (((sum \div ImBase) + sum) % ImBase)

\* Echo::serialize.
ImSerialize ==
  /\ imPc = "sum" /\ imPos > Len(imWords)
  /\ imSum' = Rfc1071Checksum(imTotal) /\ imPc' = "done"
  /\ UNCHANGED <<imIn, imOut, imLeft, imPos, imWords, imTotal, imOnes>>

ImNext == ImListen \/ SkipIpv6Header \/ ImSkipped \/ ImAddWord \/ ImSerialize
ImSpec == ImInit /\ [][ImNext]_imVars

-----------------------------------------------------------------------------
(* Properties.                                                             *)

\* The type invariant.
ImTypeOK ==
  /\ imPc \in {"listen", "skip", "sum", "done"} /\ imIn \in ImPacket
  /\ imOut.kind \in {"none", "error", "heard"} /\ imLeft \in Nat /\ imPos \in Nat \ {0}
  /\ imWords \in Seq(0 .. (ImBase - 1)) /\ imTotal \in Nat /\ imOnes \in 0 .. (ImBase - 1)
  /\ imSum \in -1 .. (ImBase - 1)

\* An error message that quotes the request as it was sent, its IP header and
\* at least the first 8 bytes behind it.
ImQuotes(p) ==
  /\ p.type \in ImErrorTypes(p.version) /\ p.quote.words >= 5 /\ p.quote.extensions = <<>>
  /\ p.quote.proto = Icmp(p.version) /\ p.quote.type = ImEchoType(p.version)
  /\ p.len >= 8 + (IF p.version = 4 THEN 4 * p.quote.words ELSE 40) + 8

\* A packet that passes the length check of its type is as long as what its
\* parser reads: the parsers take their fields without asking.
ImReadsWithin == Deserialize(imIn).kind = "message" => Deserialize(imIn).read <= imIn.len

\* An error message that quotes the request is recognised as an answer to it,
\* with as much of its data as was quoted; so is an echo reply.  Nothing else
\* is: not an echo request, not an error about another protocol or about an
\* ICMP message that is no echo request.
ImAnswersAreKnown ==
  LET v == imIn.version
      header == IF v = 4 THEN 4 * imIn.quote.words ELSE 40
      replies == imIn.type = ImReplyType(v)
      data == imIn.len - 8 - (IF replies THEN 0 ELSE header + 8)
  IN imOut.kind = "heard" =>
       /\ ImQuotes(imIn) \/ replies
          => imOut.echo = [kind |-> "echo", id |-> "ours", data |-> ImPrefix(ImRequest, data)]
       /\ imOut.echo.kind = "echo"
          => \/ replies
             \/ /\ imIn.type \in ImErrorTypes(v)
                /\ imIn.quote.proto = Icmp(v) /\ imIn.quote.type = ImEchoType(v)

\* The checksum is the one of RFC 1071, for messages whose carries do not
\* make a carry of their own when they are added back.
ImChecksumIsRight ==
  imSum # -1 /\ (imTotal % ImBase) + (imTotal \div ImBase) < ImBase => imSum = ImBase - 1 - imOnes

\* Packets are understood, and the ones that are sent will be.
ImPacketsAreUnderstood == ImReadsWithin /\ ImAnswersAreKnown /\ ImChecksumIsRight
=============================================================================
