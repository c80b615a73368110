---------------------------- MODULE Socks5Client ----------------------------
(***************************************************************************)
(* The SOCKS5 client of lib/src/socks5_client.rs: the handshake of         *)
(* connect_inner against a server that answers anything and may hang up    *)
(* after any byte, and the header of the UDP datagrams it relays.          *)
(*                                                                         *)
(* The bytes of an address or a name do not matter and are zeros; its      *)
(* length does.                                                            *)
(***************************************************************************)
EXTENDS Naturals, Sequences

CONSTANTS
    ScLen4,     \* IPV4_WIRE_LENGTH (4 in the code)
    ScLen6,     \* IPV6_WIRE_LENGTH (16 in the code)
    ScMaxName   \* bound: the longest domain name a server sends

ASSUME ScLengthsAssumption == ScLen4 \in Nat /\ ScLen6 \in Nat /\ ScMaxName \in Nat

NoAuth == 0
UsernamePassword == 2
ExtendedAuth == 128
NoAcceptable == 255

\* AuthenticationMethod::from_u8 knows these codes.
KnownMethods == {NoAuth, UsernamePassword, ExtendedAuth, NoAcceptable}

\* What the server means to answer.  Method 7 is unknown to the client.
ScAnswers ==
    [method : KnownMethods \union {7},
     version : {5, 4}, status : {0, 1}, code : {0, 1, 9}, reserved : {0, 1},
     atype : {1, 3, 4, 6}, name : 0 .. ScMaxName]

VARIABLES
    scAsk,      \* the command and the authentication offered
    scAnswer,   \* what the server means to answer
    scIn,       \* the bytes of its answers not read yet
    scStep,     \* what connect_inner waits for, or its result
    scSent      \* the methods credentials were sent for

scVars == <<scAsk, scAnswer, scIn, scStep, scSent>>

Zeros(n) == [i \in 1 .. n |-> 0]
AddressLength(a) ==
    CASE a.atype = 1 -> ScLen4 [] a.atype = 4 -> ScLen6 [] OTHER -> a.name

\* The server's byte stream; 99 is the first byte of the tunnelled data.
ScWire(a) ==
    <<a.version, a.method>>
        \o (IF a.method \in {UsernamePassword, ExtendedAuth} THEN <<1, a.status>> ELSE <<>>)
        \o <<5, a.code, a.reserved, a.atype>>
        \o (IF a.atype = 3 THEN <<a.name>> ELSE <<>>)
        \o Zeros(AddressLength(a)) \o Zeros(2) \o <<99>>

\* An answer differs from a plain grant in few places at a time.
ScLikely(a) ==
    /\ a.atype # 3 => a.name = 0
    /\ a.version = 4 => a.status = 0 /\ a.code = 0 /\ a.reserved = 0 /\ a.atype = 1
    /\ a.reserved = 1 => a.status = 0 /\ a.code = 0

ScInit ==
    /\ scAsk \in [command : {"connect", "associate"},
                  auth : {NoAuth, UsernamePassword, ExtendedAuth}]
    /\ scAnswer \in {a \in ScAnswers : ScLikely(a)}
    /\ \E cut \in 0 .. Len(ScWire(scAnswer)) : scIn = SubSeq(ScWire(scAnswer), 1, cut)
    /\ scStep = "start"
    /\ scSent = {}

\* write_selection_message: NO AUTHENTICATION is always offered too.  Any
\* write may fail.
ScSelect ==
    /\ scStep = "start"
    /\ scStep' \in {"selection", "Io"}
    /\ UNCHANGED <<scAsk, scAnswer, scIn, scSent>>

Drop(s, n) == SubSeq(s, n + 1, Len(s))

\* read_selection_response, and the authentication message it calls for.
ScReadSelection ==
    /\ scStep = "selection"
    /\ IF scIn # <<>> /\ scIn[1] # 5 THEN scStep' = "Protocol" /\ UNCHANGED <<scIn, scSent>>
       ELSE IF Len(scIn) < 2 THEN scStep' = "Io" /\ UNCHANGED <<scIn, scSent>>
       ELSE /\ scIn' = Drop(scIn, 2)
            /\ LET m == scIn[2] IN
               \/ /\ m \notin KnownMethods
                  /\ scStep' = "Protocol" /\ UNCHANGED scSent
               \/ /\ m = NoAuth
                  /\ scStep' = "request" /\ UNCHANGED scSent
               \/ /\ m # NoAuth /\ m = scAsk.auth
                  /\ scStep' \in {"authentication", "Io"}
                  /\ scSent' = scSent \union {m}
               \/ /\ m \in KnownMethods \ {NoAuth, scAsk.auth}
                  /\ scStep' = "Authentication" /\ UNCHANGED scSent
    /\ UNCHANGED <<scAsk, scAnswer>>

\* read_authentication_response
ScReadAuthentication ==
    /\ scStep = "authentication"
    /\ IF scIn # <<>> /\ scIn[1] # 1 THEN scStep' = "Protocol" /\ UNCHANGED scIn
       ELSE IF Len(scIn) < 2 THEN scStep' = "Io" /\ UNCHANGED scIn
       ELSE /\ scIn' = Drop(scIn, 2)
            /\ scStep' = IF scIn[2] = 0 THEN "request" ELSE "Authentication"
    /\ UNCHANGED <<scAsk, scAnswer, scSent>>

\* The UDP socket is bound and write_request sends the command, unless the
\* destination's name is too long.
ScRequest ==
    /\ scStep = "request"
    /\ scStep' \in {"reply", "Io"} \union (IF scAsk.command = "connect" THEN {"Protocol"} ELSE {})
    /\ UNCHANGED <<scAsk, scAnswer, scIn, scSent>>

\* Mutant: the length byte of a name is taken for part of the name.
MutantReplyLength(s) ==
    CASE s[4] = 1 -> 4 + ScLen4 + 2
      [] s[4] = 4 -> 4 + ScLen6 + 2
      [] s[4] = 3 -> 4 + (IF Len(s) > 4 THEN s[5] ELSE 1) + 2

\* How many bytes read_reply reads once the address type is known.
ReplyLength(s) ==
    CASE s[4] = 1 -> 4 + ScLen4 + 2
      [] s[4] = 4 -> 4 + ScLen6 + 2
      [] s[4] = 3 -> 5 + (IF Len(s) > 4 THEN s[5] ELSE 0) + 2

\* read_reply and what connect_inner makes of it.  The fields are checked in
\* the order they arrive, so a bad one is reported before a missing one.  A
\* name may not be UTF-8, and connecting the UDP socket may fail.
ScReadReply ==
    /\ scStep = "reply"
    /\ LET s == scIn
           bad == \/ Len(s) >= 1 /\ s[1] # 5
                  \/ Len(s) >= 2 /\ s[2] \notin 0 .. 8
                  \/ Len(s) >= 3 /\ s[3] # 0
                  \/ Len(s) >= 4 /\ s[4] \notin {1, 3, 4}
           notUtf8 == IF s[4] = 3 /\ s[5] > 0 THEN {"Protocol"} ELSE {}
       IN  IF bad THEN scStep' = "Protocol" /\ UNCHANGED scIn
           ELSE IF Len(s) < 4 \/ Len(s) < ReplyLength(s)
           THEN scStep' = "Io" /\ UNCHANGED scIn
           ELSE /\ scIn' = Drop(s, ReplyLength(s))
                /\ scStep' \in
                      IF s[2] # 0 THEN {"failure"} \union notUtf8
                      ELSE IF scAsk.command = "connect" THEN {"tcp"} \union notUtf8
                      ELSE IF s[4] = 3 THEN {"Protocol"} ELSE {"udp", "Io"}
    /\ UNCHANGED <<scAsk, scAnswer, scSent>>

ScOver == {"tcp", "udp", "failure", "Io", "Protocol", "Authentication"}

ScDone ==
    /\ scStep \in ScOver
    /\ UNCHANGED scVars

ScNext ==
    ScSelect \/ ScReadSelection \/ ScReadAuthentication \/ ScRequest \/ ScReadReply
        \/ ScDone

ScSpec == ScInit /\ [][ScNext]_scVars

-----------------------------------------------------------------------------
(* UdpAssociation                                                          *)

\* udp_buffer_size without the data: reserved, fragment, type, address, port.
UdpHeader(length) == 4 + length + 2

\* recv_from on a packet of n bytes: copy_to_slice and get_u16 panic when the
\* packet is shorter than what they read.
RecvFrom(n, atype) ==
    IF n < UdpHeader(ScLen4) \/ atype \notin {1, 4} THEN "Protocol"
    ELSE LET length == IF atype = 1 THEN ScLen4 ELSE ScLen6 IN
         IF atype = 4 /\ n - 4 < ScLen6 THEN "Protocol"
         ELSE IF n - 4 < length THEN "panic"
         ELSE IF n - 4 - length < 2 THEN "Protocol" ELSE "ok"

-----------------------------------------------------------------------------
(* Properties                                                              *)

\* The type invariant.
ScTypeOK ==
    /\ scAnswer \in ScAnswers
    /\ scIn \in Seq(Nat)
    /\ scStep \in ScOver \union {"start", "selection", "authentication", "request", "reply"}
    /\ scSent \subseteq {UsernamePassword, ExtendedAuth}

\* The handshake is exact.
\* A tunnel starts clean: when connect_inner returns the stream of a TCP
\* connection, the server's messages have been read to their last byte and
\* nothing of the tunnelled data, whatever kind of address the reply carried.
\* Success needs the server's grant in full: its reply code, and the status of
\* the authentication it asked for, which is the one that was offered.
\* The credentials leave only for a server that selected the method they were
\* offered for.
\* recv_from answers every packet, however short, without reading past its end.
ScHandshakeIsExact ==
    /\ scStep = "tcp" => scIn \in {<<99>>, <<>>}
    /\ scStep \in {"tcp", "udp"} =>
          /\ scAnswer.code = 0
          /\ \/ scAnswer.method = NoAuth
             \/ scAnswer.method = scAsk.auth /\ scAnswer.status = 0
    /\ scSent \subseteq {scAsk.auth} \intersect {scAnswer.method}
    /\ scStep = "udp" =>
          \A n \in 0 .. UdpHeader(ScLen6) + 1, atype \in {1, 3, 4} :
              /\ RecvFrom(n, atype) # "panic"
              /\ RecvFrom(n, atype) = "ok" =>
                    n >= UdpHeader(IF atype = 1 THEN ScLen4 ELSE ScLen6)
=============================================================================
