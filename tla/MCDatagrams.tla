---------------------------- MODULE MCDatagrams ----------------------------
(* Streams of two frames: accepted ones, one without payload, and one for  *)
(* each reason to drop a frame; and of two ICMP requests.                  *)
EXTENDS DatagramCodec

DcBytes == 0 .. 9
MCU32 == [field \in [1 .. 2 -> DcBytes] |-> 10 * field[1] + field[2]]

DcUdp(body) == [length |-> <<0, Len(body)>>, body |-> body]
DcUdpFrames ==
    {DcUdp(body) : body \in {<<8, 1, 0, 3>>, <<8, 0, 2, 5>>, <<8, 0>>,    \* accepted
                             <<8>>, <<8, 0, 2, 3, 0, 1, 4>>,              \* no header; too long
                             <<8, 2, 0>>, <<8, 1, 9, 2, 4>>}}             \* no name; not UTF-8
DcIcmpFrames == {[length |-> <<>>, body |-> <<8, i, 3>>] : i \in 0 .. 2}

DcMake(kind, f, g) ==
    LET Size(h) == Len(h.length) + Len(h.body) IN
    [kind |-> kind, count |-> 2, frames |-> <<f, g>>, bytes |-> f.length \o f.body \o g.length \o g.body,
     start |-> <<0, Size(f), Size(f) + Size(g)>>]
MCDcStreams == {DcMake("udp", f, g) : f, g \in DcUdpFrames} \union {DcMake("icmp", f, g) : f, g \in DcIcmpFrames}
=============================================================================
