----------------------------- MODULE MCTcpPipe -----------------------------
(* Small instances of TcpPipe.                                             *)
EXTENDS TcpPipe

MCMaxBytes == [d \in Direction |-> IF d = "Outgoing" THEN 2 ELSE 1]
=============================================================================
