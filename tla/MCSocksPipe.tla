---------------------------- MODULE MCSocksPipe ----------------------------
(* Small instances of SocksPipe.                                           *)
EXTENDS SocksPipe
=============================================================================
