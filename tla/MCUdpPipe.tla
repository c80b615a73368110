----------------------------- MODULE MCUdpPipe -----------------------------
(* Small instances of UdpPipe: a plain DNS flow and another one.           *)
EXTENDS UdpPipe

CONSTANTS client, resolver, server

MCDns == <<client, resolver>>
MCOther == <<client, server>>
MCFlow == {MCDns, MCOther}
MCPlainDns == {MCDns}
MCRefusable == {MCOther}
MCNone == {}
=============================================================================
